---------------------------- MODULE Spec2Model ----------------------------
(***************************************************************************)
(* Model of the order gateway in backend/routes/trading.py: the in-memory  *)
(* order queue, the execution orchestrator (execute_orders) and the        *)
(* sizing pipeline of place_order_on_coindcx.                              *)
(*                                                                         *)
(* Numbers.  The source computes with binary floating point.  The model    *)
(* uses scaled integers chosen so that the source's float arithmetic is   *)
(* exact on the modelled inputs:                                           *)
(*   - contract quantities (quantity_increment, min_quantity,              *)
(*     max_quantity, contracts_step) and INR amounts (qty, wallet balance) *)
(*     are integer counts of 1/QDen, QDen = 2^9 (a value q stands for the  *)
(*     float q/512, whose decimal expansion has up to 9 fractional digits);*)
(*   - price, unit_contract_value, the USDT/INR rate and leverage are      *)
(*     whole numbers;                                                      *)
(*   - total_quantity, the value after the "%.8f" formatting, is an        *)
(*     integer count of 10^-8.                                             *)
(* An optional value (a dict key that may be missing, a None) is a         *)
(* sequence of length 0 or 1.                                              *)
(***************************************************************************)
EXTENDS Integers, Sequences, FiniteSets, TLC

VARIABLES
    orders,                        \* _orders: the queue, a list of dict objects
    heap,                          \* the order dicts, by object reference
    order_next_id,                 \* _order_next_id
    ticker_cache,                  \* _ticker_cache
    ticker_cache_updated_at,       \* _ticker_cache_updated_at
    futures_wallets_cache,         \* _futures_wallets_cache (optional list)
    futures_wallets_cached_at,     \* _futures_wallets_cached_at
    active_instruments_cache,      \* _active_instruments_cache
    active_instruments_cached_at,  \* _active_instruments_cached_at
    instrument_cache,              \* _instrument_cache
    instrument_cached_at,          \* _instrument_cached_at
    credentials,                   \* COINDCX_API_KEY and COINDCX_API_SECRET
    clock,                         \* time.time(), in seconds
    calls,                         \* the frames of the execute_orders calls
    running,                       \* the coroutine the event loop is running
    posts,                         \* history: the POSTs sent to the exchange
    sz,                            \* the run of SizingSpec
    WS_CONNECTIONS,                \* router.WS_CONNECTIONS
    WS_SUBSCRIPTIONS,              \* router.WS_SUBSCRIPTIONS
    sock,                          \* the price-stream sockets and handlers
    refs,                          \* the frames of the other requests and tasks
    shutdown,                      \* _router_shutdown's position
    startup,                       \* the startup tasks that are not done
    answer,                        \* history: the last answer of get_price_http
    pb,                            \* the PriceBroadcaster instance
    subm,                          \* history: the client_order_ids built
    db                             \* the orders table and the last response

queueVars == <<orders, heap, order_next_id>>

tickerVars == <<ticker_cache, ticker_cache_updated_at>>

walletVars == <<futures_wallets_cache, futures_wallets_cached_at>>

activeVars == <<active_instruments_cache, active_instruments_cached_at>>

instVars == <<instrument_cache, instrument_cached_at>>

cacheVars == <<tickerVars, walletVars, activeVars, instVars>>

hubVars ==
    <<WS_CONNECTIONS, WS_SUBSCRIPTIONS, sock, refs, shutdown, startup, answer>>

storeVars == <<subm, db>>

streamVars == <<hubVars, pb, storeVars>>

vars == <<queueVars, cacheVars, credentials, clock, calls, running, posts, sz,
          streamVars>>

-----------------------------------------------------------------------------
(* Bounds of the model.                                                    *)

MaxQty == 3

-----------------------------------------------------------------------------
(* Program constants.                                                      *)

\* f"{contracts_step:.8f}"
FORMAT_DIGITS == 8
\* rate = 90.0 when the USDTINR ticker is missing or zero
USDT_INR_DEFAULT == 90

\* Denominator of the scaled quantities and INR amounts.
QDen == 2^9
\* float(inst.get("max_quantity") or 1e18): 1e18 lies above every quantity
\* the bounded model can produce, and so does this stand-in.
MAX_QUANTITY_DEFAULT == 2^30

-----------------------------------------------------------------------------
(* Python helpers.                                                         *)

NoneVal == <<>>

Some(v) == <<v>>

\* A default that replaces None alone and lets a zero through.
DefaultIfNone(x, d) == IF x = NoneVal THEN d ELSE x[1]

\* Python `x or d` on an optional number: None and 0 are falsy.
PyOr(x, d) == IF x = NoneVal \/ x[1] = 0 THEN d ELSE x[1]

\* Python truthiness of an optional number.
Truthy(x) == x # NoneVal /\ x[1] # 0

\* dict.get(key) as an optional.
DictGet(d, k) == IF k \in DOMAIN d THEN Some(d[k]) ELSE NoneVal

RECURSIVE GCD(_, _)
GCD(a, b) == IF b = 0 THEN a ELSE GCD(b, a % b)

\* Round num/den (num >= 0, den > 0) to the nearest integer, ties to even:
\* the rounding of Python's float formatting on an exactly represented value.
RoundHalfEven(num, den) ==
    LET q == num \div den
        r == num % den
    IN  IF 2 * r < den THEN q
        ELSE IF 2 * r > den THEN q + 1
        ELSE IF q % 2 = 0 THEN q ELSE q + 1

FmtG == GCD(10^FORMAT_DIGITS, QDen)
\* c/QDen = c*FmtNum/FmtDen in units of 10^-FORMAT_DIGITS
FmtNum == (10^FORMAT_DIGITS) \div FmtG
FmtDen == QDen \div FmtG

\* float(f"{contracts_step:.8f}"): a count of 1/QDen to a count of 10^-8.
FormatFixed(c) == RoundHalfEven(c * FmtNum, FmtDen)

-----------------------------------------------------------------------------
(* Symbols are sequences of tokens; str.upper and str.replace act on them. *)

Upper(tok) ==
    CASE tok = "btc" -> "BTC"
      [] tok = "usdt" -> "USDT"
      [] OTHER -> tok

SymbolUpper(sym) == [i \in 1..Len(sym) |-> Upper(sym[i])]

IsQuoteToken(t) == t \in {"USDT", "INR", "USD"}

\* symbol.replace("USDT", "").replace("INR", "").replace("USD", "")
BaseOf(symbol) == SelectSeq(symbol, LAMBDA t : ~IsQuoteToken(t))

\* f"B-{base}_USDT"
PairOf(symbol) == <<"B-">> \o BaseOf(symbol) \o <<"_USDT">>

BTCUSDT == <<"BTC", "USDT">>
ETHUSDT == <<"ETH", "USDT">>
USDTINR == <<"USDT", "INR">>
btcusdt == <<"btc", "usdt">>


-----------------------------------------------------------------------------
(* place_order_on_coindcx: the steps between its awaits, as operators.     *)
(* A result is one record shape for every outcome: kind "raise" (an        *)
(* exception leaves the function), "return" (a result dict) or "send"      *)
(* (every check passed, the payload is built and is about to be POSTed).   *)

BaseResult ==
    [kind |-> "return", exc |-> "", sent |-> FALSE, success |-> FALSE,
     error |-> "", pair |-> <<>>,
     quantity_increment |-> 0, min_quantity |-> 0, max_quantity |-> 0,
     inr_per_contract |-> 0, contracts_step |-> 0, total_quantity |-> 0,
     leverage |-> 0, margin_num |-> 0, margin_den |-> 1,
     wallet_balance |-> 0, response_status |-> 0]

Raise(e) == [BaseResult EXCEPT !.kind = "raise", !.exc = e]

Reject(e) == [BaseResult EXCEPT !.error = e]

\* price = order.get("limit_price") or _ticker_cache.get(symbol, None)
PriceOf(order, ticker) ==
    IF Truthy(order.limit_price) THEN order.limit_price
    ELSE DictGet(ticker, SymbolUpper(order.symbol))

\* An instrument gate that lets every pair through.
PairAlwaysActive(pair, active_instruments) == TRUE

\* if pair not in active_instruments (negated)
PairActive(pair, active_instruments) == pair \in active_instruments

\* A wallet of the futures wallets response.
Wallet(c, b) == [currency |-> c, balance |-> b]

\* for w in wallets: if currency_short_name.upper() == "INR": return w
FindInrWallet(wallets) ==
    LET inr == SelectSeq(wallets, LAMBDA w : w.currency = "INR")
    IN  IF inr = <<>> THEN NoneVal ELSE Some(inr[1])

\* wallet_balance = float(inr_wallet.get("balance") or 0.0)
WalletBalance(inr_wallet) == PyOr(inr_wallet.balance, 0)

\* rate = _ticker_cache.get("USDTINR"); if not rate: rate = 90.0
UsdtInrRate(ticker) == PyOr(DictGet(ticker, USDTINR), USDT_INR_DEFAULT)

\* requested_leverage = int(order.get("leverage") or 1)
RequestedLeverage(order) == PyOr(order.leverage, 1)

\* contracts_raw floored to a whole count, not stepped to the increment.
ContractsUnstepped(trade_size_in_inr, inr_per_contract, quantity_increment) ==
    trade_size_in_inr \div inr_per_contract

\* contracts_step = math.floor(contracts_raw / quantity_increment) * quantity_increment
\* with contracts_raw = trade_size_in_inr / inr_per_contract (both divisors non-zero)
ContractsStep(trade_size_in_inr, inr_per_contract, quantity_increment) ==
    (trade_size_in_inr \div (inr_per_contract * quantity_increment))
        * quantity_increment

\* if contracts_step < min_quantity
BelowMin(contracts_step, min_quantity) == contracts_step < min_quantity

\* if contracts_step > max_quantity
AboveMax(contracts_step, max_quantity) == contracts_step > max_quantity

\* estimated_margin = notional_inr / leverage if leverage > 0 else notional_inr
MarginDen(leverage) == IF leverage > 0 THEN leverage ELSE 1

\* A margin gate that lets every order through.
MarginNeverExceeds(margin_num, margin_den, wallet_balance) == FALSE

\* if estimated_margin > wallet_balance, the margin being
\* margin_num/margin_den counts of 10^-8 INR and the balance a count of 1/QDen
MarginExceeds(margin_num, margin_den, wallet_balance) ==
    margin_num * FmtDen > wallet_balance * margin_den * FmtNum

\* Lines 593-688: instrument defaults, sizing, bounds, margin gate.
Sizing(order, price, wallet_balance, inst, usdt_inr_rate) ==
    LET unit_contract_value == PyOr(inst.unit_contract_value, 1)
        quantity_increment  == PyOr(inst.quantity_increment, QDen)
        min_quantity        == PyOr(inst.min_quantity, quantity_increment)
        max_quantity        == PyOr(inst.max_quantity, MAX_QUANTITY_DEFAULT)
        leverage            == RequestedLeverage(order)
        trade_size_in_inr   == order.qty
        inr_per_contract    == price * unit_contract_value * usdt_inr_rate
        contracts_step      ==
            ContractsStep(trade_size_in_inr, inr_per_contract, quantity_increment)
        total_quantity      == FormatFixed(contracts_step)
        margin_num          ==
            price * unit_contract_value * total_quantity * usdt_inr_rate
        audit == [BaseResult EXCEPT
                    !.pair = PairOf(SymbolUpper(order.symbol)),
                    !.quantity_increment = quantity_increment,
                    !.min_quantity = min_quantity,
                    !.max_quantity = max_quantity,
                    !.inr_per_contract = inr_per_contract,
                    !.leverage = leverage,
                    !.wallet_balance = wallet_balance]
    IN  IF inr_per_contract = 0 \/ quantity_increment = 0
        THEN Raise("ZeroDivisionError")
        ELSE IF BelowMin(contracts_step, min_quantity)
        THEN [audit EXCEPT !.error = "trade_size_too_small_for_instrument",
                           !.contracts_step = contracts_step]
        ELSE IF AboveMax(contracts_step, max_quantity)
        THEN [audit EXCEPT !.error = "trade_size_too_large_for_instrument",
                           !.contracts_step = contracts_step]
        ELSE LET sized == [audit EXCEPT
                             !.contracts_step = contracts_step,
                             !.total_quantity = total_quantity,
                             !.margin_num = margin_num,
                             !.margin_den = MarginDen(leverage)]
             IN  IF MarginExceeds(margin_num, MarginDen(leverage), wallet_balance)
                 THEN [sized EXCEPT !.error = "estimated_margin_exceeds_balance"]
                 ELSE [sized EXCEPT !.kind = "send"]

\* Statuses the exchange answers a POST with.
StatusSet == {200, 201, 400}

\* return {"sent": True, "success": resp.status_code in (200, 201), ...}
Sent(payload, status) ==
    [payload EXCEPT !.kind = "return", !.sent = TRUE,
                    !.success = (status \in {200, 201}),
                    !.response_status = status]

-----------------------------------------------------------------------------
(* The module state after import (lines 58-79) and the environment.        *)

MARGIN_CCY == "INR"

\* {} as an instrument dict: none of the keys the sizing reads.
EmptyInst ==
    [unit_contract_value |-> NoneVal, quantity_increment |-> NoneVal,
     min_quantity |-> NoneVal, max_quantity |-> NoneVal]

EmptyDict == <<>>

NoCall == "none"

Calls == {"c1", "c2"}

CallBefore(d, c) == d = "c1" /\ c = "c2"

IdleFrame ==
    [pc |-> "idle", ids |-> <<>>, i |-> 1, id_map |-> EmptyDict, found |-> 0,
     price |-> 0, wallet_balance |-> 0, active |-> {}, inst |-> EmptyInst,
     res |-> BaseResult, exc |-> "", live |-> {},
     executed |-> <<>>, failed |-> <<>>, not_found |-> <<>>, debug |-> <<>>]

\* The run of SizingSpec: its position, the order, the ticker mapping at
\* entry, what the exchange holds (wallets, active set), the dict
\* get_instrument_details returned (inst), the requests of the run that
\* failed (faults), the locals price, wallet_balance and rate (the value
\* read at line 345), the stamp put on the order, the payload and the
\* outcome.
SzIdle ==
    [pc |-> "off", order |-> <<>>, ticker |-> EmptyDict, wallets |-> <<>>,
     active |-> {}, inst |-> EmptyInst, faults |-> {}, price |-> 0,
     wallet_balance |-> 0, rate |-> NoneVal, stamp |-> NoneVal,
     res |-> BaseResult, out |-> BaseResult]

\* Price-stream connections (WebSocket objects).
MaxConns == 2

Conns == 1..MaxConns

\* The connections that open while two refreshers are at work (HubSpec).
MaxHubConns == 1

HubConns == 1..MaxHubConns

NoWs == 0

\* The refreshers HubSpec runs: the task of ticker_background_loop and a
\* get_price_http request.
HubRefreshers == {"loop", "http"}

\* The coroutines that call refresh_ticker_cache (lines 161, 394, 386 and
\* 344): those two, a list_securities request and the execute_orders
\* calls, which reach it in _get_usdt_inr_rate.
Refreshers == HubRefreshers \cup {"securities"} \cup Calls

\* The requests that call _fetch_futures_wallets on their own:
\* get_futures_balance and get_futures_wallets.
WalletRequests == {"balance", "wallets"}

\* Every coroutine with a frame in `refs`.
Requests == Refreshers \cup WalletRequests

\* The tasks _router_startup creates beside the polling task (lines
\* 369-371): the startup fetch of the wallets and that of the active
\* instruments.  Nothing keeps a reference to them and they have no
\* locals, so `startup` counts, for each kind, the tasks that have not run
\* yet and those suspended in their request.
StartupTasks == {"startup_wallets", "startup_active"}

\* The most tasks of one kind that are not done.
MaxStartups == 2

NoStartups == [r \in StartupTasks |-> [created |-> 0, fetch_io |-> 0]]

StartupsAlive(r) == startup[r].created + startup[r].fetch_io

\* A refresher at rest.  The fields from `cur` on are the locals of the
\* _broadcast_price_updates pass it runs: the connection being served, the
\* rest of list(WS_CONNECTIONS) and of list(WS_SUBSCRIPTIONS.get(ws));
\* push is the send_text in flight; maps, gone and failed are history of
\* the pass: the mappings its prices were read from, the connections
\* whose handlers had ended when it began, the one whose send failed.
\* reply is the response of the request the frame belongs to.
RefIdle ==
    [pc |-> "idle", sym |-> <<>>, cancel |-> FALSE, cur |-> NoWs,
     todo_ws |-> {}, todo_subs |-> {}, push |-> NoneVal, maps |-> {},
     gone |-> {}, failed |-> {}, cancelled_at |-> "", reply |-> NoneVal]

\* PriceBroadcaster.__init__ (tickers, _running, _task, _subscriptions),
\* the positions of its polling task and of stop_broadcaster, the locals of
\* _push_updates (todo, cur, todo_subs, to_remove), the send_json in flight
\* and, as history, what the last fetch brought.
PbIdle ==
    [tickers |-> EmptyDict, running |-> FALSE, task |-> "none",
     cancel |-> FALSE, subscriptions |-> EmptyDict, stop |-> "idle",
     todo |-> {}, cur |-> NoWs, todo_subs |-> {}, to_remove |-> {},
     push |-> NoneVal, fetch |-> "none", cancelled_at |-> "",
     seen |-> EmptyDict, sent |-> {}, old |-> <<>>]

\* router.WS_CONNECTIONS = set(); router.WS_SUBSCRIPTIONS = {};
\* router._poll_task = None; price_broadcaster = PriceBroadcaster()
StreamInit ==
    /\ WS_CONNECTIONS = {}
    /\ WS_SUBSCRIPTIONS = EmptyDict
    /\ sock = [w \in Conns |->
                  [handler |-> "new", up |-> FALSE, ignored |-> FALSE]]
    /\ refs = [r \in Requests |->
                  IF r = "loop" THEN [RefIdle EXCEPT !.pc = "none"] ELSE RefIdle]
    /\ shutdown = "idle"
    /\ startup = NoStartups
    /\ answer = NoneVal
    /\ pb = PbIdle
    /\ subm = <<>>

\* The orders table before the first request, and no response yet; the
\* tables exist, init_db having run in the lifespan (main.py, line 42).
NoReply == [op |-> "", code |-> 0]

DbEmpty == [rows |-> {}, reply |-> NoReply, tables |-> TRUE]

\* Lines 58-79 but the instrument cache, and the environment.
ModuleInit ==
    /\ StreamInit
    /\ orders = <<>>
    /\ heap = <<>>
    /\ order_next_id = 1
    /\ ticker_cache = EmptyDict
    /\ ticker_cache_updated_at = 0
    /\ futures_wallets_cache = NoneVal
    /\ futures_wallets_cached_at = 0
    /\ active_instruments_cache = EmptyDict
    /\ active_instruments_cached_at = EmptyDict
    /\ clock = 0
    /\ calls = [c \in Calls |-> IdleFrame]
    /\ running = NoCall
    /\ posts = <<>>

ProgramInit ==
    /\ ModuleInit
    /\ instrument_cache = EmptyDict
    /\ instrument_cached_at = EmptyDict

Init ==
    /\ ProgramInit
    /\ credentials \in BOOLEAN
    /\ sz = SzIdle
    /\ db = DbEmpty

Range(f) == {f[x] : x \in DOMAIN f}

\* d[k] = v on a dict
DictSet(d, k, v) == [x \in DOMAIN d \cup {k} |-> IF x = k THEN v ELSE d[x]]

-----------------------------------------------------------------------------
(* The in-memory queue: add_order (lines 404-432).                         *)

\* Requests the model submits: the body of POST /orders after pydantic's
\* validation of OrderIn (leverage in 1..100, side and order_type matched).
OrderInputs ==
    {[symbol |-> BTCUSDT, qty |-> 2, leverage |-> Some(1), side |-> "BUY",
      order_type |-> "market", limit_price |-> NoneVal, margin |-> NoneVal],
     [symbol |-> ETHUSDT, qty |-> 2, leverage |-> Some(2), side |-> "SELL",
      order_type |-> "market", limit_price |-> NoneVal, margin |-> NoneVal],
     [symbol |-> BTCUSDT, qty |-> 0, leverage |-> Some(1), side |-> "BUY",
      order_type |-> "market", limit_price |-> NoneVal, margin |-> NoneVal]}

MaxOrders == 2

\* o = order.model_dump(); o["id"] = o["local_id"] = _order_next_id
NewOrder(order, id) ==
    [id |-> id, local_id |-> id, symbol |-> order.symbol, qty |-> order.qty,
     leverage |-> order.leverage, side |-> order.side,
     order_type |-> order.order_type, limit_price |-> order.limit_price,
     margin |-> order.margin, last_client_order_id |-> NoneVal]

\* if not order.symbol or order.qty <= 0: raise HTTPException(400)
InvalidOrder(order) == order.symbol = <<>> \/ order.qty <= 0

add_order(order) ==
    /\ running = NoCall
    /\ order_next_id <= MaxOrders
    /\ ~InvalidOrder(order)
    /\ heap' = Append(heap, NewOrder(order, order_next_id))
    /\ orders' = Append(orders, Len(heap) + 1)
    /\ order_next_id' = order_next_id + 1
    /\ UNCHANGED <<cacheVars, credentials, clock, calls, running, posts, sz, streamVars>>

MaxBulk == 2

\* BulkOrdersIn.orders: a non-empty list of OrderIn
BulkInputs == UNION {[1..n -> OrderInputs] : n \in 1..MaxBulk}

\* add_orders_bulk (lines 434-456): every order of the list is stored, in
\* the order of the list, with the next identifiers; nothing is validated
\* beyond OrderIn.
add_orders_bulk(batch) ==
    /\ running = NoCall
    /\ order_next_id + Len(batch) - 1 <= MaxOrders
    /\ heap' = heap \o [k \in 1..Len(batch) |->
                            NewOrder(batch[k], order_next_id + k - 1)]
    /\ orders' = orders \o [k \in 1..Len(batch) |-> Len(heap) + k]
    /\ order_next_id' = order_next_id + Len(batch)
    /\ UNCHANGED <<cacheVars, credentials, clock, calls, running, posts, sz,
                   streamVars>>

\* An update that gives the stored order a fresh identity.
UpdatedRenumbered(existing, order) ==
    [NewOrder(order, existing.id + 1) EXCEPT
        !.last_client_order_id = existing.last_client_order_id]

\* updated = existing.copy(); updated.update(order.model_dump());
\* updated["id"] = existing["id"]; updated["local_id"] = existing.get("local_id", ...)
Updated(existing, order) ==
    [existing EXCEPT !.symbol = order.symbol, !.qty = order.qty,
                     !.leverage = order.leverage, !.side = order.side,
                     !.order_type = order.order_type,
                     !.limit_price = order.limit_price,
                     !.margin = order.margin]

\* The first index of _orders whose order has the id, 0 if none.
IndexOfId(order_id) ==
    LET hits == {k \in DOMAIN orders : heap[orders[k]].id = order_id}
    IN  IF hits = {} THEN 0
        ELSE CHOOSE k \in hits : \A j \in hits : k <= j

\* The order dicts ever created, updated copies included.
MaxHeap == 3

\* update_order (lines 458-477): the first order with the id is replaced,
\* at its index, by an updated copy; an unknown id is answered 404 and
\* nothing changes.
update_order(order_id, order) ==
    LET idx == IndexOfId(order_id)
    IN  /\ running = NoCall
        /\ Len(heap) < MaxHeap
        /\ idx # 0
        /\ heap' = Append(heap, Updated(heap[orders[idx]], order))
        /\ orders' = [orders EXCEPT ![idx] = Len(heap) + 1]
        /\ UNCHANGED <<order_next_id, cacheVars, credentials, clock, calls,
                       running, posts, sz, streamVars>>

-----------------------------------------------------------------------------
(* The ticker refresh (lines 140-156), as run by ticker_background_loop.   *)

TickerResponses ==
    {EmptyDict, [s \in {BTCUSDT} |-> 1], [s \in {BTCUSDT, USDTINR} |-> 1]}

\* A store that merges the parsed result into the mapping it finds.
TickerMerge(new_cache) ==
    IF new_cache # EmptyDict
    THEN /\ ticker_cache' =
               [x \in DOMAIN ticker_cache \cup DOMAIN new_cache |->
                   IF x \in DOMAIN new_cache THEN new_cache[x]
                   ELSE ticker_cache[x]]
         /\ ticker_cache_updated_at' = clock
    ELSE UNCHANGED tickerVars

\* if new_cache: _ticker_cache = new_cache; _ticker_cache_updated_at = now
TickerStore(new_cache) ==
    IF new_cache # EmptyDict
    THEN /\ ticker_cache' = new_cache
         /\ ticker_cache_updated_at' = clock
    ELSE UNCHANGED tickerVars

\* One cycle of the background loop while no price-stream connection is
\* registered (the broadcast pass returns at line 760): the fetch fails
\* (the except branch) or yields a parsed mapping.
refresh_ticker_cache ==
    /\ running = NoCall
    /\ WS_CONNECTIONS = {}
    /\ \/ UNCHANGED tickerVars
       \/ \E new_cache \in TickerResponses : TickerStore(new_cache)
    /\ UNCHANGED <<queueVars, walletVars, activeVars, instVars, credentials,
                   clock, calls, running, posts, sz, streamVars>>

-----------------------------------------------------------------------------
(* execute_orders (lines 732-756) and the place_order_on_coindcx call it   *)
(* awaits (lines 536-729), one action per stretch of code between two      *)
(* suspension points.  The event loop runs one coroutine at a time: a call *)
(* steps only while it is `running`, gives the loop up when it suspends in *)
(* a network request, and is resumed, with the request's outcome, only     *)
(* when no other coroutine runs.                                           *)

MaxIds == 2

\* ExecuteIn.ids: a non-empty list of ints
IdLists == UNION {[1..n -> 1..MaxOrders] : n \in 1..MaxIds}

Frame(c) == calls[c]

SetFrame(c, f) == calls' = [calls EXCEPT ![c] = f]

\* The frame of a request or task other than an execute_orders call.
Ref(r) == refs[r]

SetRef(r, f) == refs' = [refs EXCEPT ![r] = f]

InProgress(c) == calls[c].pc \notin {"idle", "returned", "raised"}

\* id_map = {o["id"]: o for o in _orders}
IdMap ==
    [id \in {heap[orders[k]].id : k \in DOMAIN orders} |->
        orders[CHOOSE k \in DOMAIN orders :
                  /\ heap[orders[k]].id = id
                  /\ \A j \in DOMAIN orders : heap[orders[j]].id = id => j <= k]]

\* The frame of a call that has ended: its locals are gone; how it ended
\* and the orders it appended to `executed` are kept as history.
Ended(f, how, e) ==
    [IdleFrame EXCEPT !.pc = how, !.exc = e, !.executed = f.executed]

\* An exception leaves place_order_on_coindcx and, uncaught by
\* execute_orders, ends the call.
Raised(f, e) == Ended(f, "raised", e)

\* Lines 734-737: the request starts the handler.  The calls are
\* interchangeable, so the model starts them in the order of their names.
execute_orders(c, ids) ==
    /\ running = NoCall
    /\ Frame(c).pc = "idle"
    /\ \A d \in Calls : CallBefore(d, c) => Frame(d).pc # "idle"
    /\ SetFrame(c, [IdleFrame EXCEPT !.pc = "loop", !.ids = ids,
                                     !.id_map = IdMap])
    /\ running' = c
    /\ UNCHANGED <<queueVars, cacheVars, credentials, clock, posts, sz, streamVars>>

\* Lines 738-744: the next id of the list.
NextId(c) ==
    LET f == Frame(c)
        oid == f.ids[f.i]
    IN  /\ running = c
        /\ f.pc = "loop"
        /\ IF f.i > Len(f.ids)
           THEN SetFrame(c, [f EXCEPT !.pc = "finish"])
           ELSE IF oid \notin DOMAIN f.id_map
           THEN SetFrame(c, [f EXCEPT !.not_found = Append(@, oid),
                                      !.i = @ + 1])
           ELSE SetFrame(c, [f EXCEPT !.found = f.id_map[oid],
                                      !.pc = "place"])
        /\ UNCHANGED <<queueVars, cacheVars, credentials, clock, running,
                       posts, sz, streamVars>>

\* timestamp_ms = int(time.time() * 1000)
TimestampMs == clock * 1000

\* str(n) of an int n >= 0: its decimal digits
DigitChar == <<"0", "1", "2", "3", "4", "5", "6", "7", "8", "9">>

RECURSIVE Digits(_)
Digits(n) ==
    IF n < 10 THEN <<DigitChar[n + 1]>>
    ELSE Append(Digits(n \div 10), DigitChar[(n % 10) + 1])

\* base_local = order.get("local_id") or order.get("id") or "local"; both
\* keys hold the positive int add_order gave the order.
BaseLocal(order) == IF order.local_id # 0 THEN order.local_id ELSE order.id

\* A variant of ClientOrderId that joins the two numbers with nothing
\* between them.
ClientOrderIdUnseparated(order, timestamp_ms) ==
    Digits(BaseLocal(order)) \o Digits(timestamp_ms)

\* client_order_id = f"{base_local}-{timestamp_ms}", as a string of
\* characters
ClientOrderId(order, timestamp_ms) ==
    Digits(BaseLocal(order)) \o <<"-">> \o Digits(timestamp_ms)

\* Lines 539-555: the price, or HTTPException(400); the order dict is
\* stamped with last_client_order_id.
PlaceStart(c) ==
    LET f == Frame(c)
        order == heap[f.found]
        price == PriceOf(order, ticker_cache)
    IN  /\ running = c
        /\ f.pc = "place"
        /\ IF ~Truthy(price)
           THEN /\ SetFrame(c, Raised(f, "HTTPException"))
                /\ running' = NoCall
                /\ UNCHANGED heap
           ELSE /\ SetFrame(c, [f EXCEPT !.price = price[1], !.pc = "wallet"])
                /\ heap' = [heap EXCEPT ![f.found].last_client_order_id =
                                            Some(ClientOrderId(order, TimestampMs))]
                /\ UNCHANGED running
        /\ UNCHANGED <<orders, order_next_id, cacheVars, credentials, clock,
                       posts, sz, streamVars>>

WALLET_TTL == 30

\* A staleness test that looks at the snapshot and not at its age.
WalletsStaleEmptyOnly ==
    \/ futures_wallets_cache = NoneVal
    \/ futures_wallets_cache[1] = <<>>

\* (not _futures_wallets_cache) or (time.time() - _futures_wallets_cached_at > 30)
WalletsStale ==
    \/ futures_wallets_cache = NoneVal
    \/ futures_wallets_cache[1] = <<>>
    \/ clock - futures_wallets_cached_at > WALLET_TTL

\* Line 557 into _get_inr_futures_wallet (236-237) and
\* _fetch_futures_wallets (174-195): a fresh snapshot is used as it is,
\* missing credentials return None at once, else the request suspends.
WalletCheck(c) ==
    LET f == Frame(c)
    IN  /\ running = c
        /\ f.pc = "wallet"
        /\ IF WalletsStale /\ credentials
           THEN /\ SetFrame(c, [f EXCEPT !.pc = "wallet_io"])
                /\ running' = NoCall
           ELSE /\ SetFrame(c, [f EXCEPT !.pc = "wallet_got"])
                /\ UNCHANGED running
        /\ UNCHANGED <<queueVars, cacheVars, credentials, clock, posts, sz, streamVars>>

WalletResponses ==
    {<<Wallet("USDT", Some(200))>>,
     <<Wallet("USDT", Some(200)), Wallet("INR", Some(2))>>}

\* Lines 195-208: the request raises (raise_for_status), or its data
\* replaces the snapshot and its timestamp.
WalletResume(c) ==
    LET f == Frame(c)
    IN  /\ running = NoCall
        /\ f.pc = "wallet_io"
        /\ \/ /\ SetFrame(c, Raised(f, "HTTPStatusError"))
              /\ UNCHANGED <<walletVars, running>>
           \/ \E data \in WalletResponses :
                /\ futures_wallets_cache' = Some(data)
                /\ futures_wallets_cached_at' = clock
                /\ SetFrame(c, [f EXCEPT !.pc = "wallet_got"])
                /\ running' = c
        /\ UNCHANGED <<queueVars, tickerVars, activeVars, instVars,
                       credentials, clock, posts, sz, streamVars>>

\* wallets = _futures_wallets_cache or []
CachedWallets ==
    IF futures_wallets_cache = NoneVal THEN <<>> ELSE futures_wallets_cache[1]

\* The currencies a client of GET /balance names.
BalanceCurrencies == {"INR", "usd"}

\* cur = currency.upper(); if cur == "USD": cur = "USDT" (lines 489-491)
BalanceCurrency(currency) ==
    LET cur == CASE currency \in {"inr", "INR"} -> "INR"
                 [] currency \in {"usd", "USD"} -> "USD"
                 [] currency \in {"usdt", "USDT"} -> "USDT"
                 [] OTHER -> currency
    IN  IF cur = "USD" THEN "USDT" ELSE cur

\* Lines 507-521: the first wallet of the currency, or 404.
BalanceReply(wallets, cur) ==
    LET own == SelectSeq(wallets, LAMBDA w : w.currency = cur)
    IN  IF own = <<>> THEN Some([kind |-> "404", currency |-> cur, balance |-> 0])
        ELSE Some([kind |-> "balance", currency |-> cur,
                   balance |-> PyOr(own[1].balance, 0)])

\* The response of a wallet request whose fetch raised: 502 for an
\* HTTPStatusError (lines 498, 528), 500 for any other exception.
WalletError(e) ==
    Some([kind |-> IF e = "HTTPStatusError" THEN "502" ELSE "500",
          currency |-> "", balance |-> 0])

FetchErrors == {"HTTPStatusError", "RequestError"}

\* {"wallets": data} (line 527); data is None without credentials.
WalletsReply(data) == Some([kind |-> "wallets", data |-> data])

\* A wallet request answers: its frame is at rest again; `reply` keeps the
\* last response among the wallet requests.
WalletReplied(r, reply) ==
    refs' = [x \in DOMAIN refs |->
                IF x = r THEN [RefIdle EXCEPT !.reply = reply]
                ELSE IF x \in WalletRequests
                THEN [refs[x] EXCEPT !.reply = NoneVal]
                ELSE refs[x]]

\* The variables a wallet request leaves alone.
walletReqFrame ==
    <<queueVars, tickerVars, activeVars, instVars, credentials, clock, calls,
      running, posts, sz, WS_CONNECTIONS, WS_SUBSCRIPTIONS, sock, shutdown, startup,
      answer, pb, storeVars>>

\* get_futures_balance (lines 485-521): a fresh snapshot is answered from at
\* once, and so is any snapshot when the credentials are missing
\* (_fetch_futures_wallets returns None at line 176 with no await); else
\* the request suspends in the fetch.
get_futures_balance(currency) ==
    LET cur == BalanceCurrency(currency)
    IN  /\ running = NoCall
        /\ Ref("balance").pc = "idle"
        /\ IF WalletsStale /\ credentials
           THEN SetRef("balance", [Ref("balance") EXCEPT !.pc = "fetch_io",
                                                         !.sym = cur])
           ELSE WalletReplied("balance", BalanceReply(CachedWallets, cur))
        /\ UNCHANGED <<walletVars, walletReqFrame>>

\* get_futures_wallets (lines 524-533): the fetch, whatever the age of the
\* snapshot.
get_futures_wallets ==
    /\ running = NoCall
    /\ Ref("wallets").pc = "idle"
    /\ IF credentials
       THEN SetRef("wallets", [Ref("wallets") EXCEPT !.pc = "fetch_io"])
       ELSE WalletReplied("wallets", WalletsReply(NoneVal))
    /\ UNCHANGED <<walletVars, walletReqFrame>>

\* Lines 195-208 for a wallet request: the fetch raises and the handler
\* turns it into 502 or 500, or its data replaces the snapshot and its
\* timestamp and the handler answers from it.
WalletFetchResume(r) ==
    LET f == Ref(r)
    IN  /\ running = NoCall
        /\ f.pc = "fetch_io"
        /\ \/ \E e \in FetchErrors :
                /\ WalletReplied(r, WalletError(e))
                /\ UNCHANGED walletVars
           \/ \E data \in WalletResponses :
                /\ futures_wallets_cache' = Some(data)
                /\ futures_wallets_cached_at' = clock
                /\ WalletReplied(r, IF r = "wallets"
                                     THEN WalletsReply(Some(data))
                                     ELSE BalanceReply(data, f.sym))
        /\ UNCHANGED walletReqFrame

\* Lines 239-243 and 558-566: no INR wallet is a result, not an exception.
WalletGot(c) ==
    LET f == Frame(c)
        inr_wallet == FindInrWallet(CachedWallets)
    IN  /\ running = c
        /\ f.pc = "wallet_got"
        /\ IF inr_wallet = NoneVal
           THEN SetFrame(c, [f EXCEPT !.res = Reject("no_inr_futures_wallet"),
                                      !.pc = "result"])
           ELSE SetFrame(c, [f EXCEPT
                               !.wallet_balance = WalletBalance(inr_wallet[1]),
                               !.pc = "active"])
        /\ UNCHANGED <<queueVars, cacheVars, credentials, clock, running,
                       posts, sz, streamVars>>

INSTRUMENT_TTL == 60

\* A read of the active-instrument cache that finds nothing.
CachedActiveNone == {}

\* _active_instruments_cache.get(mc), None as the empty set
CachedActive ==
    IF MARGIN_CCY \in DOMAIN active_instruments_cache
    THEN active_instruments_cache[MARGIN_CCY] ELSE {}

\* not instruments or (now - ts > 60), ts = _active_instruments_cached_at.get(mc, 0)
ActiveStale ==
    \/ CachedActive = {}
    \/ clock - PyOr(DictGet(active_instruments_cached_at, MARGIN_CCY), 0)
           > INSTRUMENT_TTL

\* Line 574 into get_active_instruments (269-277).
ActiveCheck(c) ==
    LET f == Frame(c)
    IN  /\ running = c
        /\ f.pc = "active"
        /\ IF ActiveStale
           THEN /\ SetFrame(c, [f EXCEPT !.pc = "active_io"])
                /\ running' = NoCall
           ELSE /\ SetFrame(c, [f EXCEPT !.active = CachedActive,
                                         !.pc = "active_got"])
                /\ UNCHANGED running
        /\ UNCHANGED <<queueVars, cacheVars, credentials, clock, posts, sz, streamVars>>

ActiveResponses == {{PairOf(BTCUSDT)}}

\* Lines 252-259 and 278-281: the fetched set replaces the entry of the
\* margin currency; a failed fetch is caught and the cached set is used.
ActiveResume(c) ==
    LET f == Frame(c)
    IN  /\ running = NoCall
        /\ f.pc = "active_io"
        /\ \/ /\ SetFrame(c, [f EXCEPT !.active = CachedActive,
                                       !.pc = "active_got"])
              /\ UNCHANGED activeVars
           \/ \E instruments \in ActiveResponses :
                /\ active_instruments_cache' =
                       DictSet(active_instruments_cache, MARGIN_CCY, instruments)
                /\ active_instruments_cached_at' =
                       DictSet(active_instruments_cached_at, MARGIN_CCY, clock)
                /\ SetFrame(c, [f EXCEPT !.active = instruments,
                                         !.pc = "active_got"])
        /\ running' = c
        /\ UNCHANGED <<queueVars, tickerVars, walletVars, instVars,
                       credentials, clock, posts, sz, streamVars>>

\* Lines 575-589: the pair must be in the active set.
ActiveGot(c) ==
    LET f == Frame(c)
        pair == PairOf(SymbolUpper(heap[f.found].symbol))
    IN  /\ running = c
        /\ f.pc = "active_got"
        /\ IF ~PairActive(pair, f.active)
           THEN SetFrame(c, [f EXCEPT
                               !.res = [Reject("instrument_not_active")
                                            EXCEPT !.pair = pair],
                               !.pc = "result"])
           ELSE SetFrame(c, [f EXCEPT !.pc = "inst"])
        /\ UNCHANGED <<queueVars, cacheVars, credentials, clock, running,
                       posts, sz, streamVars>>

\* _instrument_cache.get(key), key = (pair, "INR"); None as {}
CachedInst(pair) ==
    IF pair \in DOMAIN instrument_cache THEN instrument_cache[pair]
    ELSE EmptyInst

\* not inst or (now - ts > 60), ts = _instrument_cached_at.get(key, 0)
InstStale(pair) ==
    \/ CachedInst(pair) = EmptyInst
    \/ clock - PyOr(DictGet(instrument_cached_at, pair), 0) > INSTRUMENT_TTL

\* Line 591 into get_instrument_details (318-330).
InstCheck(c) ==
    LET f == Frame(c)
        pair == PairOf(SymbolUpper(heap[f.found].symbol))
    IN  /\ running = c
        /\ f.pc = "inst"
        /\ IF InstStale(pair)
           THEN /\ SetFrame(c, [f EXCEPT !.pc = "inst_io"])
                /\ running' = NoCall
           ELSE /\ SetFrame(c, [f EXCEPT !.inst = CachedInst(pair),
                                         !.pc = "rate"])
                /\ UNCHANGED running
        /\ UNCHANGED <<queueVars, cacheVars, credentials, clock, posts, sz, streamVars>>

InstResponses ==
    {[unit_contract_value |-> Some(1), quantity_increment |-> Some(1),
      min_quantity |-> Some(1), max_quantity |-> Some(QDen)]}

\* Lines 298-309 and 331-334: the fetched dict ({} for a non-dict answer)
\* replaces the entry of the key; a failed fetch is caught and the cached
\* dict is used.
InstResume(c) ==
    LET f == Frame(c)
        pair == PairOf(SymbolUpper(heap[f.found].symbol))
    IN  /\ running = NoCall
        /\ f.pc = "inst_io"
        /\ \/ /\ SetFrame(c, [f EXCEPT !.inst = CachedInst(pair),
                                       !.pc = "rate"])
              /\ UNCHANGED instVars
           \/ \E inst \in InstResponses :
                /\ instrument_cache' = DictSet(instrument_cache, pair, inst)
                /\ instrument_cached_at' =
                       DictSet(instrument_cached_at, pair, clock)
                /\ SetFrame(c, [f EXCEPT !.inst = inst, !.pc = "rate"])
        /\ running' = c
        /\ UNCHANGED <<queueVars, tickerVars, walletVars, activeVars,
                       credentials, clock, posts, sz, streamVars>>

-----------------------------------------------------------------------------
(* The ticker refresh with the price push wired to it (lines 140-164 and   *)
(* 759-777).  refresh_ticker_cache is rebound at line 777, so every caller *)
(* (ticker_background_loop, _get_usdt_inr_rate inside execute_orders,      *)
(* list_securities and get_price_http) runs the fetch and then a broadcast *)
(* pass.  A refresher gives the event loop up in the fetch and in every    *)
(* send_text.                                                              *)

\* The orchestrator's and the caches' variables but the call frames, which
\* a refresh leaves alone.
hubOrch ==
    <<queueVars, walletVars, activeVars, instVars, credentials, posts, sz, pb,
      storeVars>>

\* The variables the hub's own handlers leave alone.
orchVars == <<hubOrch, calls>>

\* TICKER_REFRESH_INTERVAL = float(os.getenv("TICKER_REFRESH_INTERVAL", "10"))
TICKER_REFRESH_INTERVAL == 10

\* The seconds one Tick adds to the clock, and where the clock stops.
TickSeconds == 11

MaxClock == 11

HubSymbols == {BTCUSDT, ETHUSDT}

\* What _fetch_all_tickers brings: an exception, a JSON value that is no
\* list, or a list, given by the mapping its items parse to.
FetchOutcomes ==
    {[kind |-> "raise", items |-> EmptyDict],
     [kind |-> "nonlist", items |-> EmptyDict],
     [kind |-> "list", items |-> EmptyDict],
     [kind |-> "list", items |-> [x \in {BTCUSDT, ETHUSDT} |-> 1]],
     [kind |-> "list", items |-> [x \in {BTCUSDT} |-> 2]]}

\* for item in (data if isinstance(data, list) else []): new_cache[sym] = last
ParseTickers(data) == IF data.kind = "list" THEN data.items ELSE EmptyDict

\* What the fetch brings to a refresh run from execute_orders: an
\* exception, or a list with or without the pair the FX rate is read from.
RateFetchOutcomes ==
    {[kind |-> "raise", items |-> EmptyDict]}
        \cup {[kind |-> "list", items |-> t] : t \in TickerResponses}

RefreshOutcomes(r) == IF r \in Calls THEN RateFetchOutcomes ELSE FetchOutcomes

\* Lines 142-156 on the outcome of the fetch: an exception is caught and
\* logged, a parsed mapping goes to TickerStore.
RefreshStore(data) ==
    IF data.kind = "raise" THEN UNCHANGED tickerVars
    ELSE TickerStore(ParseTickers(data))

\* The task of ticker_background_loop has ended.
TaskDone(f) == f.pc \in {"cancelled", "failed"}

\* WS_SUBSCRIPTIONS.get(ws, set())
SubsOf(w) ==
    IF w \in DOMAIN WS_SUBSCRIPTIONS THEN WS_SUBSCRIPTIONS[w] ELSE {}

\* The handlers that have ended.
ClosedConns == {w \in Conns : sock[w].handler = "closed"}

\* get_price_http's answer (lines 395-402) from the mapping `cache` stored
\* at `updated_at`: the cached price, or 404 for a symbol it lacks.
Answer(sym, cache, updated_at, refreshed) ==
    IF sym \in DOMAIN cache
    THEN Some([kind |-> "price", symbol |-> sym, price |-> cache[sym],
               age |-> clock - updated_at, refreshed |-> refreshed])
    ELSE Some([kind |-> "404", symbol |-> sym, price |-> 0, age |-> 0,
               refreshed |-> refreshed])

\* The request ended in an exception.
Answer500(sym) ==
    Some([kind |-> "500", symbol |-> sym, price |-> 0, age |-> 0,
          refreshed |-> TRUE])

\* list_securities' response (lines 387-388): the keys of the mapping; the
\* sorted list of distinct keys is given by their set.
Securities(cache) ==
    Some([kind |-> "symbols", symbols |-> DOMAIN cache,
          count |-> Cardinality(DOMAIN cache)])

\* The response to a request that ended in an uncaught exception.
Reply500 == Some([kind |-> "500", symbols |-> {}, count |-> 0])

\* The refresh has returned to its caller.  The loop sleeps (line 162);
\* get_price_http looks the symbol up again (lines 395-402);
\* list_securities answers with the keys (387-388); _get_usdt_inr_rate
\* goes on, inside the call, to read the rate (345).
AfterRefresh(r, f) ==
    CASE r = "loop" ->
           /\ running' = NoCall
           /\ SetRef(r, [RefIdle EXCEPT !.pc = "sleep"])
           /\ UNCHANGED <<answer, calls>>
      [] r = "http" ->
           /\ running' = NoCall
           /\ SetRef(r, RefIdle)
           /\ answer' = Answer(f.sym, ticker_cache', ticker_cache_updated_at',
                               TRUE)
           /\ UNCHANGED calls
      [] r = "securities" ->
           /\ running' = NoCall
           /\ SetRef(r, [RefIdle EXCEPT !.reply = Securities(ticker_cache')])
           /\ UNCHANGED <<answer, calls>>
      [] r \in Calls ->
           /\ running' = r
           /\ SetRef(r, RefIdle)
           /\ SetFrame(r, [Frame(r) EXCEPT !.pc = "size"])
           /\ UNCHANGED answer

\* The refresh has raised into its caller.  Nothing in the loop catches it
\* (line 163 catches CancelledError only): the task ends.  A request
\* fails; neither place_order_on_coindcx nor execute_orders catches it, so
\* the call ends with the exception.
RefreshRaised(r, f) ==
    /\ running' = NoCall
    /\ CASE r = "loop" ->
             /\ SetRef(r, [RefIdle EXCEPT !.pc = "failed",
                                           !.failed = f.failed])
             /\ UNCHANGED <<answer, calls>>
        [] r = "http" ->
             /\ SetRef(r, [RefIdle EXCEPT !.failed = f.failed])
             /\ answer' = Answer500(f.sym)
             /\ UNCHANGED calls
        [] r = "securities" ->
             /\ SetRef(r, [RefIdle EXCEPT !.failed = f.failed,
                                           !.reply = Reply500])
             /\ UNCHANGED <<answer, calls>>
        [] r \in Calls ->
             /\ SetRef(r, [RefIdle EXCEPT !.failed = f.failed])
             /\ SetFrame(r, Raised(Frame(r), "RuntimeError"))
             /\ UNCHANGED answer

\* _router_startup (lines 366-371): a polling task is created when there
\* is none or the last one is done (a cancelled one that has not ended yet
\* is not done); a startup fetch of the wallets is created when the
\* credentials are set, and one of the active instruments.  None of the
\* new tasks has run yet.
router_startup ==
    LET f == Ref("loop")
        spawned == {"startup_active"} \cup
                   (IF credentials THEN {"startup_wallets"} ELSE {})
    IN  /\ running = NoCall
        /\ \A r \in spawned : StartupsAlive(r) < MaxStartups
        /\ IF f.pc = "none" \/ TaskDone(f)
           THEN SetRef("loop", [RefIdle EXCEPT !.pc = "created"])
           ELSE UNCHANGED refs
        /\ startup' = [r \in StartupTasks |->
                          IF r \in spawned
                          THEN [startup[r] EXCEPT !.created = @ + 1]
                          ELSE startup[r]]
        /\ UNCHANGED <<orchVars, tickerVars, clock, running, WS_CONNECTIONS,
                       WS_SUBSCRIPTIONS, sock, shutdown, answer>>

\* The first step of a startup task.  _log_futures_wallets_startup (lines
\* 351-354) suspends in the request of _fetch_futures_wallets (line 195);
\* _log_active_instruments_startup (lines 358-361) ends at once when
\* get_active_instruments finds a fresh set (line 277), else it suspends
\* in the request (line 253).
StartupStep(r) ==
    /\ running = NoCall
    /\ startup[r].created > 0
    /\ IF r = "startup_active" /\ ~ActiveStale
       THEN startup' = [startup EXCEPT ![r].created = @ - 1]
       ELSE startup' = [startup EXCEPT ![r].created = @ - 1,
                                       ![r].fetch_io = @ + 1]
    /\ UNCHANGED <<orchVars, tickerVars, clock, running, WS_CONNECTIONS,
                   WS_SUBSCRIPTIONS, sock, refs, shutdown, answer>>

\* The request of a startup task answers and the task ends.  A failure is
\* caught and logged (lines 355 and 279) and the cache stays; else the
\* wallets replace the snapshot and its timestamp (lines 205-206), or the
\* set replaces the entry of the margin currency (lines 258-259).
StartupResume(r) ==
    /\ running = NoCall
    /\ startup[r].fetch_io > 0
    /\ startup' = [startup EXCEPT ![r].fetch_io = @ - 1]
    /\ IF r = "startup_wallets"
       THEN /\ \/ UNCHANGED walletVars
               \/ \E data \in WalletResponses :
                    /\ futures_wallets_cache' = Some(data)
                    /\ futures_wallets_cached_at' = clock
            /\ UNCHANGED activeVars
       ELSE /\ \/ UNCHANGED activeVars
               \/ \E instruments \in ActiveResponses :
                    /\ active_instruments_cache' =
                           DictSet(active_instruments_cache, MARGIN_CCY,
                                   instruments)
                    /\ active_instruments_cached_at' =
                           DictSet(active_instruments_cached_at, MARGIN_CCY,
                                   clock)
            /\ UNCHANGED walletVars
    /\ UNCHANGED <<queueVars, instVars, credentials, posts, sz, pb, storeVars,
                   calls, tickerVars, clock, running, WS_CONNECTIONS,
                   WS_SUBSCRIPTIONS, sock, refs, shutdown, answer>>

\* ticker_background_loop (lines 158-162): the task's first step, and every
\* step after a sleep, calls the refresh, which suspends in the fetch.
LoopCycle ==
    LET f == Ref("loop")
    IN  /\ running = NoCall
        /\ f.pc \in {"created", "sleep"}
        /\ ~f.cancel
        /\ SetRef("loop", [f EXCEPT !.pc = "fetch_io"])
        /\ UNCHANGED <<orchVars, tickerVars, clock, running, WS_CONNECTIONS,
                       WS_SUBSCRIPTIONS, sock, shutdown, startup, answer>>

\* get_price_http (lines 391-402): a cached symbol is answered at once, with
\* no look at the age of the cache; an absent one awaits the refresh.
get_price_http(symbol) ==
    LET f == Ref("http")
        sym == SymbolUpper(symbol)
    IN  /\ running = NoCall
        /\ f.pc = "idle"
        /\ IF sym \in DOMAIN ticker_cache
           THEN /\ answer' = Answer(sym, ticker_cache, ticker_cache_updated_at,
                                    FALSE)
                /\ UNCHANGED refs
           ELSE /\ SetRef("http", [f EXCEPT !.pc = "fetch_io", !.sym = sym])
                /\ UNCHANGED answer
        /\ UNCHANGED <<orchVars, tickerVars, clock, running, WS_CONNECTIONS,
                       WS_SUBSCRIPTIONS, sock, shutdown, startup>>

\* list_securities (lines 384-388): a non-empty mapping is listed at once,
\* an empty one awaits the refresh first.
list_securities ==
    LET f == Ref("securities")
    IN  /\ running = NoCall
        /\ f.pc = "idle"
        /\ IF ticker_cache = EmptyDict
           THEN SetRef("securities", [RefIdle EXCEPT !.pc = "fetch_io"])
           ELSE SetRef("securities",
                       [RefIdle EXCEPT !.reply = Securities(ticker_cache)])
        /\ UNCHANGED <<orchVars, tickerVars, clock, running, WS_CONNECTIONS,
                       WS_SUBSCRIPTIONS, sock, shutdown, startup, answer>>

\* The refresher is suspended in the fetch of line 143: a hub request by
\* its own frame, a call by its position in _get_usdt_inr_rate (line 344).
InFetch(r) ==
    IF r \in Calls THEN Frame(r).pc = "rate_io" /\ Ref(r).pc = "idle"
    ELSE Ref(r).pc = "fetch_io"

\* Lines 143-156 and 760-762: the fetch ends, the mapping is stored or
\* not, and the broadcast pass begins: it returns at once when no
\* connection is registered, else it takes list(router.WS_CONNECTIONS).
FetchResume(r) ==
    LET f == Ref(r)
    IN  /\ running = NoCall
        /\ InFetch(r)
        /\ ~f.cancel
        /\ \E data \in RefreshOutcomes(r) : RefreshStore(data)
        /\ IF WS_CONNECTIONS = {}
           THEN AfterRefresh(r, f)
           ELSE /\ SetRef(r, [f EXCEPT !.pc = "pass",
                                       !.todo_ws = WS_CONNECTIONS,
                                       !.failed = {},
                                       !.gone = ClosedConns])
                /\ running' = r
                /\ UNCHANGED <<answer, calls>>
        /\ UNCHANGED <<hubOrch, clock, WS_CONNECTIONS, WS_SUBSCRIPTIONS,
                       sock, shutdown, startup>>

\* The push of one price: ws.send_text is called (line 766).  `member`
\* and `registered` record the registry at that moment.
Push(w, s, price) ==
    Some([ws |-> w, symbol |-> s, price |-> price,
          member |-> s \in SubsOf(w), registered |-> w \in WS_CONNECTIONS])

\* Lines 762-766: the loops of the pass up to the next send_text.  The
\* order of list(set) is arbitrary.
PassStep(r) ==
    LET f == Ref(r)
    IN  /\ running = r
        /\ f.pc = "pass"
        /\ UNCHANGED <<hubOrch, tickerVars, clock, WS_CONNECTIONS,
                       WS_SUBSCRIPTIONS, sock, shutdown, startup>>
        /\ IF f.todo_subs # {}
           THEN \E s \in f.todo_subs :
                  LET g == [f EXCEPT !.todo_subs = @ \ {s}]
                      price == DictGet(ticker_cache, s)
                  IN  IF price # NoneVal
                      THEN /\ SetRef(r, [g EXCEPT
                                           !.pc = "send_io",
                                           !.maps = @ \cup {ticker_cache},
                                           !.push = Push(f.cur, s, price[1])])
                           /\ running' = NoCall
                           /\ UNCHANGED <<answer, calls>>
                      ELSE /\ SetRef(r, g)
                           /\ UNCHANGED <<running, answer, calls>>
           ELSE IF f.todo_ws # {}
           THEN \E w \in f.todo_ws :
                  /\ SetRef(r, [f EXCEPT !.cur = w, !.todo_ws = @ \ {w},
                                         !.todo_subs = SubsOf(w)])
                  /\ UNCHANGED <<running, answer, calls>>
           ELSE AfterRefresh(r, f)

\* send_text returns, or raises on a socket that is gone; the pass does not
\* catch it and neither does refresh_ticker_cache_and_broadcast.
SendResume(r) ==
    LET f == Ref(r)
    IN  /\ running = NoCall
        /\ f.pc = "send_io"
        /\ ~f.cancel
        /\ IF sock[f.cur].up
           THEN /\ SetRef(r, [f EXCEPT !.pc = "pass", !.push = NoneVal])
                /\ running' = r
                /\ UNCHANGED <<answer, calls>>
           ELSE RefreshRaised(r, [f EXCEPT !.failed = {f.cur}])
        /\ UNCHANGED <<hubOrch, tickerVars, clock, WS_CONNECTIONS,
                       WS_SUBSCRIPTIONS, sock, shutdown, startup>>

-----------------------------------------------------------------------------
(* place_order_on_coindcx from the FX rate on.                             *)

RATE_TTL == 30

\* (symbol not in _ticker_cache) or (time.time() - _ticker_cache_updated_at > 30)
RateStale ==
    \/ USDTINR \notin DOMAIN ticker_cache
    \/ clock - ticker_cache_updated_at > RATE_TTL

\* Line 610 into _get_usdt_inr_rate (342-344).
RateCheck(c) ==
    LET f == Frame(c)
    IN  /\ running = c
        /\ f.pc = "rate"
        /\ IF RateStale
           THEN /\ SetFrame(c, [f EXCEPT !.pc = "rate_io"])
                /\ running' = NoCall
           ELSE /\ SetFrame(c, [f EXCEPT !.pc = "size"])
                /\ UNCHANGED running
        /\ UNCHANGED <<queueVars, cacheVars, credentials, clock, posts, sz, streamVars>>

\* The refresh awaited by _get_usdt_inr_rate (line 344) is the rebound
\* name: lines 142-156, then the broadcast pass (759-769), which PassStep
\* and SendResume carry on when a connection is registered.
RateResume(c) == FetchResume(c)

\* A POST sent to COINDCX_ORDER_URL (history): the call, the order id and
\* object, the payload, and the calls in progress when it was sent.
Post(c, f, payload) ==
    [call |-> c, i |-> f.i, id |-> f.ids[f.i], found |-> f.found,
     payload |-> payload, live |-> {d \in Calls : InProgress(d)}]

\* Lines 593-720: the sizing; a rejection is a result, a passed order is
\* signed and POSTed, which suspends the call.
Size(c) ==
    LET f == Frame(c)
        r == Sizing(heap[f.found], f.price, f.wallet_balance, f.inst,
                    UsdtInrRate(ticker_cache))
    IN  /\ running = c
        /\ f.pc = "size"
        /\ CASE r.kind = "raise" ->
                  /\ SetFrame(c, Raised(f, r.exc))
                  /\ running' = NoCall
                  /\ UNCHANGED posts
             [] r.kind = "return" ->
                  /\ SetFrame(c, [f EXCEPT !.res = r, !.pc = "result"])
                  /\ UNCHANGED <<running, posts>>
             [] r.kind = "send" ->
                  /\ SetFrame(c, [f EXCEPT !.res = r, !.pc = "post_io"])
                  /\ running' = NoCall
                  /\ posts' = Append(posts, Post(c, f, r))
        /\ UNCHANGED <<queueVars, cacheVars, credentials, clock, sz, streamVars>>

\* The answers of the exchange to the orchestrator's POSTs: one status that
\* counts as success and one that does not.
PostAnswers == {200, 400}

\* Lines 721-729: the result dict is returned straight after the response,
\* whatever its status (the attempts and backoff_sec parameters of line 536
\* are not read).
AfterAnswer(status) == "result"

\* Lines 720-729: the exchange answers with a status, or the request
\* raises (a timeout, a connection error).
PostResume(c) ==
    LET f == Frame(c)
    IN  /\ running = NoCall
        /\ f.pc = "post_io"
        /\ \/ /\ SetFrame(c, Raised(f, "RequestError"))
              /\ UNCHANGED running
           \/ \E status \in PostAnswers :
                /\ SetFrame(c, [f EXCEPT !.res = Sent(f.res, status),
                                         !.pc = AfterAnswer(status)])
                /\ running' = c
        /\ UNCHANGED <<queueVars, cacheVars, credentials, clock, posts, sz, streamVars>>

\* Lines 745-750: the result goes to debug and to executed or failed.
Bucket(c) ==
    LET f == Frame(c)
        oid == f.ids[f.i]
        entry == [local_id |-> oid, symbol |-> heap[f.found].symbol,
                  result |-> f.res]
        g == [f EXCEPT !.debug = Append(@, entry), !.i = @ + 1,
                       !.pc = "loop", !.found = 0, !.price = 0,
                       !.wallet_balance = 0, !.active = {},
                       !.inst = EmptyInst, !.res = BaseResult]
    IN  /\ running = c
        /\ f.pc = "result"
        /\ IF f.res.success
           THEN SetFrame(c, [g EXCEPT !.executed = Append(@, f.found)])
           ELSE SetFrame(c, [g EXCEPT !.failed = Append(@, oid)])
        /\ UNCHANGED <<queueVars, cacheVars, credentials, clock, running,
                       posts, sz, streamVars>>

\* executed_ids = {o["id"] for o in executed}
ExecutedIds(f) == {heap[f.executed[k]].id : k \in DOMAIN f.executed}

\* A removal that rebuilds the queue from the orders id_map held when the
\* call began.
UnexecutedAtEntry(queue, f) ==
    SelectSeq(queue, LAMBDA o : /\ \E i \in DOMAIN f.id_map : f.id_map[i] = o
                                /\ heap[o].id \notin ExecutedIds(f))

\* _orders = [o for o in _orders if o["id"] not in executed_ids], over the
\* queue as it is at line 754
Unexecuted(queue, f) ==
    SelectSeq(queue, LAMBDA o : heap[o].id \notin ExecutedIds(f))

\* Lines 752-756: the executed orders leave the queue; the call returns.
Return(c) ==
    LET f == Frame(c)
    IN  /\ running = c
        /\ f.pc = "finish"
        /\ orders' = IF f.executed # <<>>
                     THEN Unexecuted(orders, f)
                     ELSE orders
        /\ SetFrame(c, Ended(f, "returned", ""))
        /\ running' = NoCall
        /\ UNCHANGED <<heap, order_next_id, cacheVars, credentials, clock,
                       posts, sz, streamVars>>

Next ==
    \/ \E order \in OrderInputs : add_order(order)
    \/ refresh_ticker_cache
    \/ \E c \in Calls, ids \in IdLists : execute_orders(c, ids)
    \/ \E c \in Calls :
         \/ NextId(c)
         \/ PlaceStart(c)
         \/ WalletCheck(c)
         \/ WalletResume(c)
         \/ WalletGot(c)
         \/ ActiveCheck(c)
         \/ ActiveResume(c)
         \/ ActiveGot(c)
         \/ InstCheck(c)
         \/ InstResume(c)
         \/ RateCheck(c)
         \/ RateResume(c)
         \/ Size(c)
         \/ PostResume(c)
         \/ Bucket(c)
         \/ Return(c)

Spec == Init /\ [][Next]_vars

-----------------------------------------------------------------------------
(* QueueSpec: the in-memory queue under all of its writers: add_order,     *)
(* add_orders_bulk, update_order and one execute_orders call.              *)

QueueNext ==
    \/ \E order \in OrderInputs : add_order(order)
    \/ \E batch \in BulkInputs : add_orders_bulk(batch)
    \/ \E order_id \in 1..MaxOrders, order \in OrderInputs :
          update_order(order_id, order)
    \/ refresh_ticker_cache
    \/ \E ids \in IdLists : execute_orders("c1", ids)
    \/ NextId("c1")
    \/ PlaceStart("c1")
    \/ WalletCheck("c1")
    \/ WalletResume("c1")
    \/ WalletGot("c1")
    \/ ActiveCheck("c1")
    \/ ActiveResume("c1")
    \/ ActiveGot("c1")
    \/ InstCheck("c1")
    \/ InstResume("c1")
    \/ RateCheck("c1")
    \/ RateResume("c1")
    \/ Size("c1")
    \/ PostResume("c1")
    \/ Bucket("c1")
    \/ Return("c1")

QueueSpec == Init /\ [][QueueNext]_vars

-----------------------------------------------------------------------------
(* CacheSpec: the wallet snapshot, the active-instrument set and the       *)
(* instrument details (lines 167-334) as one execute_orders call reads and *)
(* refreshes them while time passes.  The clock stops on both sides of the *)
(* two lifetimes, 30 s and 60 s.                                           *)

ClockStops == <<0, 30, 31, 60, 61>>

\* Time passes while no coroutine runs.
Elapse ==
    /\ running = NoCall
    /\ \E k \in 1..(Len(ClockStops) - 1) :
          /\ clock = ClockStops[k]
          /\ clock' = ClockStops[k + 1]
    /\ UNCHANGED <<queueVars, cacheVars, credentials, calls, running, posts,
                   sz, streamVars>>

\* The orders of OrderInputs that reach the instrument details.
CacheOrders == {o \in OrderInputs : o.symbol = BTCUSDT /\ o.qty > 0}

\* The instrument cache at the first request of the run: empty, or with
\* the entry an order on ETHUSDT left in it.
WarmInstruments ==
    {EmptyDict} \cup {[p \in {PairOf(ETHUSDT)} |-> i] : i \in InstResponses}

\* The lists that name the first order, once or more.
CacheIdLists == {ids \in IdLists : \A k \in DOMAIN ids : ids[k] = 1}

CacheInit ==
    /\ ModuleInit
    /\ instrument_cache \in WarmInstruments
    /\ instrument_cached_at = [p \in DOMAIN instrument_cache |-> 0]
    /\ credentials \in BOOLEAN
    /\ sz = SzIdle
    /\ db = DbEmpty

CacheNext ==
    \/ \E order \in CacheOrders : add_order(order)
    \/ refresh_ticker_cache
    \/ Elapse
    \/ \E ids \in CacheIdLists : execute_orders("c1", ids)
    \/ NextId("c1")
    \/ PlaceStart("c1")
    \/ WalletCheck("c1")
    \/ WalletResume("c1")
    \/ WalletGot("c1")
    \/ ActiveCheck("c1")
    \/ ActiveResume("c1")
    \/ ActiveGot("c1")
    \/ InstCheck("c1")
    \/ InstResume("c1")
    \/ RateCheck("c1")
    \/ RateResume("c1")
    \/ Size("c1")
    \/ PostResume("c1")
    \/ Bucket("c1")
    \/ Return("c1")

CacheSpec == CacheInit /\ [][CacheNext]_vars

-----------------------------------------------------------------------------
(* WalletSpec: the wallet snapshot under all of its writers: an            *)
(* execute_orders call, GET /balance and GET /wallets, while time passes.  *)
(* The run begins after the first cycle of the polling task, which has     *)
(* stored the prices.                                                      *)

\* Where the clock stops: past the lifetime of the snapshot.
MaxWalletClock == 31

WalletInit ==
    /\ StreamInit
    /\ orders = <<>>
    /\ heap = <<>>
    /\ order_next_id = 1
    /\ ticker_cache = [s \in {BTCUSDT, USDTINR} |-> 1]
    /\ ticker_cache_updated_at = 0
    /\ futures_wallets_cache = NoneVal
    /\ futures_wallets_cached_at = 0
    /\ active_instruments_cache = EmptyDict
    /\ active_instruments_cached_at = EmptyDict
    /\ instrument_cache = EmptyDict
    /\ instrument_cached_at = EmptyDict
    /\ clock = 0
    /\ calls = [c \in Calls |-> IdleFrame]
    /\ running = NoCall
    /\ posts = <<>>
    /\ credentials \in BOOLEAN
    /\ sz = SzIdle
    /\ db = DbEmpty

WalletNext ==
    \/ \E order \in CacheOrders : add_order(order)
    \/ Elapse /\ clock' <= MaxWalletClock
    \/ \E currency \in BalanceCurrencies : get_futures_balance(currency)
    \/ get_futures_wallets
    \/ \E r \in WalletRequests : WalletFetchResume(r)
    \/ \E ids \in CacheIdLists : execute_orders("c1", ids)
    \/ NextId("c1")
    \/ PlaceStart("c1")
    \/ WalletCheck("c1")
    \/ WalletResume("c1")
    \/ WalletGot("c1")
    \/ ActiveCheck("c1")
    \/ ActiveResume("c1")
    \/ ActiveGot("c1")
    \/ InstCheck("c1")
    \/ InstResume("c1")
    \/ RateCheck("c1")
    \/ RateResume("c1")
    \/ Size("c1")
    \/ PostResume("c1")
    \/ Bucket("c1")
    \/ Return("c1")

WalletSpec == WalletInit /\ [][WalletNext]_vars

-----------------------------------------------------------------------------
(* StoreSpec: the persisted order store of backend/routes/user_orders.py.  *)
(* db.rows is the orders table (models/database.py, lines 57-95), a set of *)
(* rows; db.reply is the last response: the handler that sent it and its   *)
(* status code.  A handler runs from its query to its commit without an    *)
(* await, so each is one action; a handler that raises leaves its session  *)
(* uncommitted, and get_db closes it (backend/database.py, lines 36-45),   *)
(* which discards what the handler had set on its objects.                 *)
(* The table outlives the process: it starts empty or with a row in any    *)
(* status of OrderStatus, the statuses other than QUEUED being written by  *)
(* code that is not in user_orders.py.                                     *)
(* db.tables says whether the tables exist: drop_db (backend/database.py,  *)
(* lines 55-60) drops them and init_db (lines 48-53) creates them; on a    *)
(* database without tables every query and every commit raises, which the  *)
(* handler of main.py (lines 90-96) answers with 500.                      *)

\* class OrderStatus (models/database.py, lines 15-20)
OrderStatus == {"pending", "queued", "executed", "failed", "cancelled"}

\* The largest id of the table, and where the store's clock stops.
MaxRows == 2

MaxStoreClock == 1

\* User.max_leverage = Column(Integer, default=20)
DEFAULT_MAX_LEVERAGE == 20

\* The users rows: current_user is the one the request's token names.
Users == {[id |-> 1, max_leverage |-> DEFAULT_MAX_LEVERAGE],
          [id |-> 2, max_leverage |-> DEFAULT_MAX_LEVERAGE]}

\* The user whose requests the model runs; the other one owns orders too.
CurrentUsers == {u \in Users : u.id = 1}

\* class OrderCreate (lines 20-27): the bodies that pass its validation.
OrderCreates ==
    [symbol : {btcusdt}, side : {"BUY"}, order_type : {"limit"},
     quantity : {1}, leverage : {1, 21}, limit_price : {NoneVal, Some(7)},
     margin : {NoneVal}]

\* class BulkOrderCreate (lines 55-56)
BulkOrderCreates == UNION {[1..n -> OrderCreates] : n \in 1..MaxRows}

\* class OrderUpdate (lines 29-37): every field is optional.
OrderUpdates ==
    [symbol : {NoneVal, Some(ETHUSDT)}, side : {NoneVal},
     order_type : {NoneVal}, quantity : {NoneVal},
     leverage : {NoneVal, Some(5), Some(21)},
     limit_price : {NoneVal, Some(9)}, margin : {NoneVal},
     status : {NoneVal, Some("executed")}]

\* The id SQLite gives a new row of an INTEGER PRIMARY KEY column: one more
\* than the largest id in the table.
NextRowId ==
    IF db.rows = {} THEN 1
    ELSE 1 + CHOOSE m \in {r.id : r \in db.rows} :
                 \A r \in db.rows : r.id <= m

\* Order(user_id=..., symbol=order_data.symbol.upper(), ...,
\* status=OrderStatus.QUEUED), with the column defaults of created_at and
\* updated_at (lines 82-92)
DbOrder(order_data, current_user, id) ==
    [id |-> id, user_id |-> current_user.id,
     symbol |-> SymbolUpper(order_data.symbol), side |-> order_data.side,
     order_type |-> order_data.order_type, quantity |-> order_data.quantity,
     leverage |-> order_data.leverage, limit_price |-> order_data.limit_price,
     margin |-> order_data.margin, status |-> "queued",
     created_at |-> clock, updated_at |-> clock]

\* The query without its filter on Order.user_id.
DbFindAnyUser(order_id, current_user) ==
    {r \in db.rows : r.id = order_id}

\* db.query(Order).filter(Order.id == order_id,
\*                        Order.user_id == current_user.id).first()
DbFind(order_id, current_user) ==
    {r \in db.rows : r.id = order_id /\ r.user_id = current_user.id}

Reply(op, code) == [op |-> op, code |-> code]

\* A session whose close writes what it holds, committed or not.
SessionEndFlushed(stored, session, committed) == session

\* get_db (backend/database.py, lines 36-45) closes the session when the
\* handler is left: what it holds has reached the table only if the
\* handler got to its db.commit(); SessionLocal neither autocommits nor
\* autoflushes.
SessionEnd(stored, session, committed) ==
    IF committed THEN session ELSE stored

\* A leverage test that lets every leverage through.
LeverageAllowedAny(leverage, current_user) == TRUE

\* Lines 75, 115 and 248: a leverage above current_user.max_leverage
\* raises HTTPException(400).
LeverageAllowed(leverage, current_user) ==
    leverage <= current_user.max_leverage

\* Lines 63-98: POST /.  The leverage is tested before the session is
\* used; without tables db.commit() raises.
create_order(order_data, current_user) ==
    /\ NextRowId <= MaxRows
    /\ IF ~LeverageAllowed(order_data.leverage, current_user)
       THEN db' = [db EXCEPT !.reply = Reply("create_order", 400)]
       ELSE IF ~db.tables
       THEN db' = [db EXCEPT !.reply = Reply("create_order", 500)]
       ELSE db' = [db EXCEPT
                     !.rows = @ \cup
                                {DbOrder(order_data, current_user, NextRowId)},
                     !.reply = Reply("create_order", 201)]
    /\ UNCHANGED <<queueVars, cacheVars, credentials, clock, calls, running,
                   posts, sz, hubVars, pb, subm>>

\* Lines 113-134: the orders the loop has added to the session when it
\* ends or raises at the first leverage above the user's maximum.
BulkAdded(bulk_data, current_user) ==
    LET bad == {k \in DOMAIN bulk_data :
                   ~LeverageAllowed(bulk_data[k].leverage, current_user)}
        n == IF bad = {} THEN Len(bulk_data)
             ELSE (CHOOSE k \in bad : \A j \in bad : k <= j) - 1
    IN  {DbOrder(bulk_data[k], current_user, NextRowId + k - 1) : k \in 1..n}

\* Lines 100-142: POST /bulk; the one commit follows the loop.
create_bulk_orders(bulk_data, current_user) ==
    LET added == BulkAdded(bulk_data, current_user)
        committed == Cardinality(added) = Len(bulk_data)
    IN  /\ NextRowId + Len(bulk_data) - 1 <= MaxRows
        /\ IF committed /\ ~db.tables
           THEN db' = [db EXCEPT !.reply = Reply("create_bulk_orders", 500)]
           ELSE db' = [db EXCEPT
                         !.rows = SessionEnd(@, @ \cup added, committed),
                         !.reply = Reply("create_bulk_orders",
                                         IF committed THEN 201 ELSE 400)]
    /\ UNCHANGED <<queueVars, cacheVars, credentials, clock, calls, running,
                   posts, sz, hubVars, pb, subm>>

\* Lines 187-207: GET /{order_id}; the order is returned, or 404.
get_order(order_id, current_user) ==
    /\ db' = [db EXCEPT !.reply =
                 Reply("get_order",
                       IF ~db.tables THEN 500
                       ELSE IF DbFind(order_id, current_user) = {} THEN 404
                       ELSE 200)]
    /\ UNCHANGED <<queueVars, cacheVars, credentials, clock, calls, running,
                   posts, sz, hubVars, pb, subm>>

\* A variant of Modifiable that lets every order through.
ModifiableAlways(order) == TRUE

\* Lines 232 and 287: order.status != OrderStatus.QUEUED raises 400.
Modifiable(order) == order.status = "queued"

\* Lines 238-245: the fields written to the order before the leverage of
\* the request is looked at.
PatchedUntilLeverage(order, order_update) ==
    [order EXCEPT !.symbol = IF order_update.symbol # NoneVal
                             THEN SymbolUpper(order_update.symbol[1]) ELSE @,
                  !.side = IF order_update.side # NoneVal
                           THEN order_update.side[1] ELSE @,
                  !.order_type = IF order_update.order_type # NoneVal
                                 THEN order_update.order_type[1] ELSE @,
                  !.quantity = IF order_update.quantity # NoneVal
                               THEN order_update.quantity[1] ELSE @]

\* Lines 238-259: the fields of the request that are not None are written
\* to the order (order_update.status is not read), and updated_at is now.
Patched(order, order_update) ==
    [order EXCEPT !.symbol = IF order_update.symbol # NoneVal
                             THEN SymbolUpper(order_update.symbol[1]) ELSE @,
                  !.side = IF order_update.side # NoneVal
                           THEN order_update.side[1] ELSE @,
                  !.order_type = IF order_update.order_type # NoneVal
                                 THEN order_update.order_type[1] ELSE @,
                  !.quantity = IF order_update.quantity # NoneVal
                               THEN order_update.quantity[1] ELSE @,
                  !.leverage = IF order_update.leverage # NoneVal
                               THEN order_update.leverage[1] ELSE @,
                  !.limit_price = IF order_update.limit_price # NoneVal
                                  THEN order_update.limit_price ELSE @,
                  !.margin = IF order_update.margin # NoneVal
                             THEN order_update.margin ELSE @,
                  !.updated_at = clock]

\* Lines 209-263: PUT /{order_id}.
user_orders_update_order(order_id, order_update, current_user) ==
    LET found == DbFind(order_id, current_user)
        order == CHOOSE r \in found : TRUE
    IN  /\ IF ~db.tables
           THEN db' = [db EXCEPT !.reply = Reply("update_order", 500)]
           ELSE IF found = {}
           THEN db' = [db EXCEPT !.reply = Reply("update_order", 404)]
           ELSE IF ~Modifiable(order)
           THEN db' = [db EXCEPT !.reply = Reply("update_order", 400)]
           ELSE IF /\ order_update.leverage # NoneVal
                   /\ ~LeverageAllowed(order_update.leverage[1], current_user)
           THEN db' = [db EXCEPT
                         !.rows = SessionEnd(@,
                                    (@ \ {order}) \cup
                                       {PatchedUntilLeverage(order, order_update)},
                                    FALSE),
                         !.reply = Reply("update_order", 400)]
           ELSE db' = [db EXCEPT
                         !.rows = (@ \ {order}) \cup
                                      {Patched(order, order_update)},
                         !.reply = Reply("update_order", 200)]
        /\ UNCHANGED <<queueVars, cacheVars, credentials, clock, calls,
                       running, posts, sz, hubVars, pb, subm>>

\* Lines 265-296: DELETE /{order_id}; db.delete(order) removes the row.
delete_order(order_id, current_user) ==
    LET found == DbFind(order_id, current_user)
        order == CHOOSE r \in found : TRUE
    IN  /\ IF ~db.tables
           THEN db' = [db EXCEPT !.reply = Reply("delete_order", 500)]
           ELSE IF found = {}
           THEN db' = [db EXCEPT !.reply = Reply("delete_order", 404)]
           ELSE IF ~Modifiable(order)
           THEN db' = [db EXCEPT !.reply = Reply("delete_order", 400)]
           ELSE db' = [db EXCEPT !.rows = @ \ {order},
                                 !.reply = Reply("delete_order", 200)]
        /\ UNCHANGED <<queueVars, cacheVars, credentials, clock, calls,
                       running, posts, sz, hubVars, pb, subm>>

\* Lines 299-317: DELETE /; the user's queued rows are deleted.
clear_queue(current_user) ==
    /\ IF ~db.tables
       THEN db' = [db EXCEPT !.reply = Reply("clear_queue", 500)]
       ELSE db' = [db EXCEPT
                     !.rows = {r \in @ : ~(/\ r.user_id = current_user.id
                                           /\ r.status = "queued")},
                     !.reply = Reply("clear_queue", 200)]
    /\ UNCHANGED <<queueVars, cacheVars, credentials, clock, calls, running,
                   posts, sz, hubVars, pb, subm>>

\* drop_db (backend/database.py, lines 55-60): Base.metadata.drop_all
\* drops the tables, the orders of every user in every status with them.
drop_db ==
    /\ db' = [db EXCEPT !.rows = {}, !.tables = FALSE]
    /\ UNCHANGED <<queueVars, cacheVars, credentials, clock, calls, running,
                   posts, sz, hubVars, pb, subm>>

\* init_db (backend/database.py, lines 48-53): Base.metadata.create_all
\* creates the tables that are missing and leaves the others as they are.
init_db ==
    /\ db' = [db EXCEPT !.tables = TRUE]
    /\ UNCHANGED <<queueVars, cacheVars, credentials, clock, calls, running,
                   posts, sz, hubVars, pb, subm>>

\* datetime.utcnow() moves on between two requests.
StoreTick ==
    /\ clock < MaxStoreClock
    /\ clock' = clock + 1
    /\ UNCHANGED <<queueVars, cacheVars, credentials, calls, running, posts,
                   sz, hubVars, pb, storeVars>>

\* The tables the process may find at its start: none of the orders, or
\* one order of either user in any status.
StoredBefore ==
    {{}} \cup
    {{[DbOrder(o, u, 1) EXCEPT !.status = st]} :
         o \in {c \in OrderCreates : c.leverage = 1},
         u \in Users, st \in OrderStatus}

StoreInit ==
    /\ ProgramInit
    /\ credentials = TRUE
    /\ sz = SzIdle
    /\ db \in {[DbEmpty EXCEPT !.rows = rows] : rows \in StoredBefore}

StoreNext ==
    \/ \E order_data \in OrderCreates, u \in CurrentUsers :
         create_order(order_data, u)
    \/ \E bulk_data \in BulkOrderCreates, u \in CurrentUsers :
         create_bulk_orders(bulk_data, u)
    \/ \E order_id \in 1..MaxRows + 1, order_update \in OrderUpdates,
          u \in CurrentUsers :
         user_orders_update_order(order_id, order_update, u)
    \/ \E order_id \in 1..MaxRows + 1, u \in CurrentUsers :
         delete_order(order_id, u)
    \/ \E order_id \in 1..MaxRows + 1, u \in CurrentUsers :
         get_order(order_id, u)
    \/ \E u \in CurrentUsers : clear_queue(u)
    \/ drop_db
    \/ init_db
    \/ StoreTick

StoreSpec == StoreInit /\ [][StoreNext]_vars

-----------------------------------------------------------------------------
(* ClientIdSpec: the client_order_id of lines 549-555 on bounded local ids *)
(* and millisecond timestamps.                                             *)

MaxSubmissions == 2

\* The local ids and the timestamps of the submissions; their decimal
\* strings are prefixes and suffixes of each other.
SubmitIds == {1, 2, 11, 12}

SubmitStamps == {1, 2, 11, 12}

\* One submission: the order's local id, timestamp_ms and the
\* client_order_id the payload carries (lines 549-555, 690-701).
Submit(local_id, timestamp_ms) ==
    /\ Len(subm) < MaxSubmissions
    /\ subm' = Append(subm,
                   [local_id |-> local_id, timestamp_ms |-> timestamp_ms,
                    client_order_id |->
                        ClientOrderId([local_id |-> local_id, id |-> local_id],
                                      timestamp_ms)])
    /\ UNCHANGED <<queueVars, cacheVars, credentials, clock, calls, running,
                   posts, sz, hubVars, pb, db>>

ClientIdNext ==
    \E local_id \in SubmitIds, timestamp_ms \in SubmitStamps :
        Submit(local_id, timestamp_ms)

ClientIdSpec == Init /\ [][ClientIdNext]_vars

-----------------------------------------------------------------------------
(* SizingSpec: one run of place_order_on_coindcx (lines 536-729), step by  *)
(* step, on every combination of a bounded order, ticker mapping at entry, *)
(* wallet list and active set held by the exchange, and instrument record. *)
(* The run begins on the caches as they are after import, but the ticker   *)
(* mapping.  Every request of the run is answered or fails.  A step runs   *)
(* from one suspension point to the next.                                  *)

OptSmall == {NoneVal, Some(0), Some(2)}

QtySet == (1..MaxQty) \cup {USDT_INR_DEFAULT * q : q \in 1..MaxQty} \cup {QDen}

SzOrders ==
    [symbol : {BTCUSDT, btcusdt}, qty : QtySet, leverage : OptSmall,
     limit_price : OptSmall]

SzTickers ==
    {[s \in D |-> IF s = BTCUSDT THEN 1 ELSE r] :
        D \in SUBSET {BTCUSDT, USDTINR}, r \in {0, 1}}

SzWallets ==
    {<<>>, <<Wallet("USDT", Some(200))>>}
        \cup {<<Wallet("USDT", Some(200)), Wallet("INR", b)>> :
                b \in {NoneVal, Some(2), Some(200)}}

SzActive == {{}, {PairOf(BTCUSDT)}}

SzInstruments ==
    [unit_contract_value : OptSmall,
     quantity_increment : OptSmall \cup {Some(1)},
     min_quantity : {NoneVal, Some(2)},
     max_quantity : {NoneVal, Some(2)}]

\* What the fetch of the refresh awaited at line 610 brings: an exception,
\* or a list with another price and with or without the pair USDTINR.
SzFetchOutcomes ==
    {[kind |-> "raise", items |-> EmptyDict],
     [kind |-> "list", items |-> [s \in {BTCUSDT} |-> 3]]}
        \cup {[kind |-> "list",
               items |-> [s \in {BTCUSDT, USDTINR} |->
                             IF s = BTCUSDT THEN 3 ELSE r]] : r \in {0, 1}}

SzInit ==
    /\ StreamInit
    /\ orders = <<>>
    /\ heap = <<>>
    /\ order_next_id = 1
    /\ ticker_cache \in SzTickers
    /\ ticker_cache_updated_at = 0
    /\ futures_wallets_cache = NoneVal
    /\ futures_wallets_cached_at = 0
    /\ active_instruments_cache = EmptyDict
    /\ active_instruments_cached_at = EmptyDict
    /\ instrument_cache = EmptyDict
    /\ instrument_cached_at = EmptyDict
    /\ clock = 0
    /\ calls = [c \in Calls |-> IdleFrame]
    /\ running = NoCall
    /\ posts = <<>>
    /\ credentials = TRUE
    /\ \E o \in SzOrders, w \in SzWallets, a \in SzActive :
          sz = [SzIdle EXCEPT !.pc = "ready", !.order = o,
                              !.ticker = ticker_cache, !.wallets = w,
                              !.active = a]
    /\ db = DbEmpty

\* base_local is "local" for an order dict with neither local_id nor id
\* (line 552).
SzClientOrderId == <<"l", "o", "c", "a", "l", "-">> \o Digits(TimestampMs)

\* Lines 612-720 with the rate read from the mapping as it is after
\* _get_usdt_inr_rate's refresh (line 345): a rejection or an exception
\* ends the run, a passed order is signed and POSTed.
SzAfterRate(s, ticker) ==
    LET r == Sizing(s.order, s.price, s.wallet_balance, s.inst,
                    UsdtInrRate(ticker))
        t == [s EXCEPT !.rate = DictGet(ticker, USDTINR)]
    IN  IF r.kind = "send" THEN [t EXCEPT !.pc = "post_io", !.res = r]
        ELSE [t EXCEPT !.pc = "done", !.out = r]

\* Line 610 into _get_usdt_inr_rate (342-344).
SzFromRate(s) ==
    IF RateStale THEN [s EXCEPT !.pc = "rate_io"]
    ELSE SzAfterRate(s, ticker_cache)

\* Line 591 into get_instrument_details (318-330).
SzFromInst(s) ==
    LET pair == PairOf(SymbolUpper(s.order.symbol))
    IN  IF InstStale(pair) THEN [s EXCEPT !.pc = "inst_io"]
        ELSE SzFromRate([s EXCEPT !.inst = CachedInst(pair)])

\* Lines 575-589: the pair must be in the set get_active_instruments
\* returned.
SzFromActiveGot(s, active_instruments) ==
    LET pair == PairOf(SymbolUpper(s.order.symbol))
    IN  IF ~PairActive(pair, active_instruments)
        THEN [s EXCEPT !.pc = "done",
                       !.out = [Reject("instrument_not_active")
                                    EXCEPT !.pair = pair]]
        ELSE SzFromInst(s)

\* Line 574 into get_active_instruments (269-277).
SzFromActive(s) ==
    IF ActiveStale THEN [s EXCEPT !.pc = "active_io"]
    ELSE SzFromActiveGot(s, CachedActive)

\* Lines 239-243 and 558-566 on the snapshot as it is after the lookup.
SzFromWalletGot(s, wallets) ==
    LET inr_wallet == FindInrWallet(wallets)
    IN  IF inr_wallet = NoneVal
        THEN [s EXCEPT !.pc = "done", !.out = Reject("no_inr_futures_wallet")]
        ELSE SzFromActive([s EXCEPT
                             !.wallet_balance = WalletBalance(inr_wallet[1])])

\* Line 557 into _get_inr_futures_wallet (236-237).
SzFromWallet(s) ==
    IF WalletsStale /\ credentials THEN [s EXCEPT !.pc = "wallet_io"]
    ELSE SzFromWalletGot(s, CachedWallets)

\* The POST of line 720 is sent when the step ends suspended in it.
SzPosted ==
    posts' = IF sz'.pc = "post_io"
             THEN Append(posts, [call |-> "sz", i |-> 1, id |-> 0, found |-> 0,
                                 payload |-> sz'.res, live |-> {}])
             ELSE posts

\* Lines 539-557: the price is read from the order or from the mapping as
\* it is at entry, the order is stamped, and the run goes on to its first
\* await.
SzStart ==
    LET price == PriceOf(sz.order, ticker_cache)
    IN  /\ running = NoCall
        /\ sz.pc = "ready"
        /\ sz' = IF ~Truthy(price)
                 THEN [sz EXCEPT !.pc = "done", !.out = Raise("HTTPException")]
                 ELSE SzFromWallet([sz EXCEPT !.price = price[1],
                                              !.stamp = Some(SzClientOrderId)])
        /\ SzPosted
        /\ UNCHANGED <<queueVars, cacheVars, credentials, clock, calls,
                       running, streamVars>>

\* The run has a failed request more.
SzFault(s, request) == [s EXCEPT !.faults = @ \cup {request}]

\* Lines 195-208: the request raises (raise_for_status) and nothing up to
\* the caller of place_order_on_coindcx catches it, or the exchange's
\* wallets replace the snapshot and its timestamp and the run goes on from
\* line 239.
SzWalletResume ==
    /\ running = NoCall
    /\ sz.pc = "wallet_io"
    /\ \/ /\ sz' = [SzFault(sz, "wallets") EXCEPT
                       !.pc = "done", !.out = Raise("HTTPStatusError")]
          /\ UNCHANGED walletVars
       \/ /\ futures_wallets_cache' = Some(sz.wallets)
          /\ futures_wallets_cached_at' = clock
          /\ sz' = SzFromWalletGot(sz, sz.wallets)
    /\ SzPosted
    /\ UNCHANGED <<queueVars, tickerVars, activeVars, instVars, credentials,
                   clock, calls, running, streamVars>>

\* Lines 252-259 and 278-281: the fetch fails, is caught, and the cached
\* set is used, or the exchange's active set replaces the entry of the
\* margin currency; the run goes on from line 575.
SzActiveResume ==
    /\ running = NoCall
    /\ sz.pc = "active_io"
    /\ \/ /\ sz' = SzFromActiveGot(SzFault(sz, "active"), CachedActive)
          /\ UNCHANGED activeVars
       \/ /\ active_instruments_cache' =
                 DictSet(active_instruments_cache, MARGIN_CCY, sz.active)
          /\ active_instruments_cached_at' =
                 DictSet(active_instruments_cached_at, MARGIN_CCY, clock)
          /\ sz' = SzFromActiveGot(sz, sz.active)
    /\ SzPosted
    /\ UNCHANGED <<queueVars, tickerVars, walletVars, instVars, credentials,
                   clock, calls, running, streamVars>>

\* Lines 298-309 and 331-334: the fetch fails, is caught, and the cached
\* dict is used, or the fetched dict replaces the entry of the key; the
\* run goes on from line 593.
SzInstResume ==
    LET pair == PairOf(SymbolUpper(sz.order.symbol))
    IN  /\ running = NoCall
        /\ sz.pc = "inst_io"
        /\ \/ /\ sz' = SzFromRate([SzFault(sz, "instrument") EXCEPT
                                      !.inst = CachedInst(pair)])
              /\ UNCHANGED instVars
           \/ \E inst \in SzInstruments :
                /\ instrument_cache' = DictSet(instrument_cache, pair, inst)
                /\ instrument_cached_at' =
                       DictSet(instrument_cached_at, pair, clock)
                /\ sz' = SzFromRate([sz EXCEPT !.inst = inst])
        /\ SzPosted
        /\ UNCHANGED <<queueVars, tickerVars, walletVars, activeVars,
                       credentials, clock, calls, running, streamVars>>

\* Lines 142-156 and 760: the refresh awaited at line 344 ends; no
\* connection is registered, so its broadcast pass returns at once, and
\* the rate is read from the mapping the refresh left.
SzRateResume ==
    /\ running = NoCall
    /\ sz.pc = "rate_io"
    /\ WS_CONNECTIONS = {}
    /\ \E data \in SzFetchOutcomes : RefreshStore(data)
    /\ sz' = SzAfterRate(sz, ticker_cache')
    /\ SzPosted
    /\ UNCHANGED <<queueVars, walletVars, activeVars, instVars, credentials,
                   clock, calls, running, streamVars>>

\* Lines 720-729: the POST raises (no retry, no except clause), or the
\* exchange answers it with any status.
SzPostResume ==
    /\ running = NoCall
    /\ sz.pc = "post_io"
    /\ \/ sz' = [SzFault(sz, "order") EXCEPT
                    !.pc = "done", !.out = Raise("RequestError")]
       \/ \E status \in StatusSet :
            sz' = [sz EXCEPT !.pc = "done", !.out = Sent(sz.res, status)]
    /\ UNCHANGED <<queueVars, cacheVars, credentials, clock, calls, running,
                   posts, streamVars>>

SzNext ==
    \/ SzStart
    \/ SzWalletResume
    \/ SzActiveResume
    \/ SzInstResume
    \/ SzRateResume
    \/ SzPostResume

SizingSpec == SzInit /\ [][SzNext]_vars

-----------------------------------------------------------------------------
(* HubSpec: the polling task and the price read (390-402) with the         *)
(* price-stream handler (lines 779-809) and the router's startup and       *)
(* shutdown (365-380).                                                     *)

\* ws_price_endpoint (lines 780-794): the connection is accepted and
\* registered with an empty subscription set.
ws_price_endpoint(w) ==
    /\ running = NoCall
    /\ sock[w].handler = "new"
    /\ sock' = [sock EXCEPT ![w].handler = "open", ![w].up = TRUE]
    /\ WS_CONNECTIONS' = WS_CONNECTIONS \cup {w}
    /\ WS_SUBSCRIPTIONS' = DictSet(WS_SUBSCRIPTIONS, w, {})
    /\ UNCHANGED <<orchVars, tickerVars, clock, running, refs, shutdown, startup,
                   answer>>

WsActions == {"subscribe", "unsubscribe", "ping"}

\* The symbols a client names, in either case.
WsSymbols == HubSymbols \cup {btcusdt}

\* A receive loop that drops every subscription on an unknown action.
WsApplyStrict(subs, action, sym) ==
    CASE action = "subscribe" -> subs \cup {sym}
      [] action = "unsubscribe" -> subs \ {sym}
      [] OTHER -> {}

\* Lines 799-802: the if / elif on the action, on WS_SUBSCRIPTIONS[ws].
WsApply(subs, action, sym) ==
    CASE action = "subscribe" -> subs \cup {sym}
      [] action = "unsubscribe" -> subs \ {sym}
      [] OTHER -> subs

\* Lines 796-802: one message of the receive loop.  `ignored` records that
\* a message with an action that is neither subscribe nor unsubscribe has
\* been through the loop.
WsMessage(w, action, symbol) ==
    LET sym == SymbolUpper(symbol)
    IN  /\ running = NoCall
        /\ sock[w].handler = "open"
        /\ sock[w].up
        /\ WS_SUBSCRIPTIONS' =
              [WS_SUBSCRIPTIONS EXCEPT ![w] = WsApply(@, action, sym)]
        /\ sock' = [sock EXCEPT ![w].ignored =
                        @ \/ action \notin {"subscribe", "unsubscribe"}]
        /\ UNCHANGED <<orchVars, tickerVars, clock, running, WS_CONNECTIONS,
                       refs, shutdown, startup, answer>>

\* The client goes away; the handler has not noticed yet.
WsDrop(w) ==
    /\ sock[w].handler = "open"
    /\ sock[w].up
    /\ sock' = [sock EXCEPT ![w].up = FALSE]
    /\ UNCHANGED <<orchVars, tickerVars, clock, running, WS_CONNECTIONS,
                   WS_SUBSCRIPTIONS, refs, shutdown, startup, answer>>

\* A pop that removes nothing.
DictKeep(d, k) == d

\* d.pop(k, None)
DictPop(d, k) == [x \in DOMAIN d \ {k} |-> d[x]]

\* Lines 804-809: receive_text or json.loads raises (the client is gone, or
\* the message is malformed); the finally block unregisters the connection.
WsHandlerEnd(w) ==
    /\ running = NoCall
    /\ sock[w].handler = "open"
    /\ sock' = [sock EXCEPT ![w].handler = "closed", ![w].up = FALSE]
    /\ WS_CONNECTIONS' = WS_CONNECTIONS \ {w}
    /\ WS_SUBSCRIPTIONS' = DictPop(WS_SUBSCRIPTIONS, w)
    /\ UNCHANGED <<orchVars, tickerVars, clock, running, refs, shutdown, startup,
                   answer>>

\* Time passes.
Tick ==
    /\ clock + TickSeconds <= MaxClock
    /\ clock' = clock + TickSeconds
    /\ UNCHANGED <<orchVars, tickerVars, running, hubVars>>

\* An await of the task outside any try/except.
AwaitUncaught(clause, ending) == ending = "finished"

\* `await task` inside try/except: how the task ended decides what the
\* await raises (nothing, CancelledError, the task's exception), and the
\* except clause whether it is caught.
AwaitCaught(clause, ending) ==
    CASE ending = "finished" -> TRUE
      [] ending = "cancelled" -> clause \in {"bare", "CancelledError"}
      [] ending = "failed" -> clause = "bare"

\* _router_shutdown (lines 374-380): with a polling task, cancel it and
\* await it inside try/except.  A task that is done makes the await end at
\* once, its exception swallowed by the bare except; else the call is
\* suspended until the task has ended.  `shutdown` is the position of the
\* latest call that has not returned, or how the last return ended; a call
\* that returns at once while another is suspended leaves it.
router_shutdown ==
    LET f == Ref("loop")
    IN  /\ running = NoCall
        /\ IF f.pc = "none" \/ TaskDone(f)
           THEN /\ shutdown' =
                      IF shutdown \in {"waiting", "joined"} THEN shutdown
                      ELSE IF f.pc = "none" \/ AwaitCaught("bare", f.pc)
                      THEN "complete" ELSE "raised"
                /\ UNCHANGED refs
           ELSE /\ shutdown' = "waiting"
                /\ SetRef("loop", [f EXCEPT !.cancel = TRUE])
        /\ UNCHANGED <<orchVars, tickerVars, clock, running, WS_CONNECTIONS,
                       WS_SUBSCRIPTIONS, sock, startup, answer>>

\* The cancelled task is resumed with CancelledError at the await it is
\* suspended in (the fetch, a send_text, the sleep), or never starts;
\* `except Exception` (line 155) does not catch it, line 163 does.  The
\* _router_shutdown call that awaits the task can go on.
LoopCancelled ==
    LET f == Ref("loop")
    IN  /\ running = NoCall
        /\ f.cancel
        /\ f.pc \in {"created", "fetch_io", "send_io", "sleep"}
        /\ SetRef("loop", [RefIdle EXCEPT !.pc = "cancelled",
                                          !.cancel = TRUE,
                                          !.cancelled_at = f.pc])
        /\ shutdown' = IF shutdown = "waiting" THEN "joined" ELSE shutdown
        /\ UNCHANGED <<orchVars, tickerVars, clock, running, WS_CONNECTIONS,
                       WS_SUBSCRIPTIONS, sock, startup, answer>>

\* Line 378: the awaited task has ended by its cancellation, and the await
\* raises CancelledError into the try.
ShutdownResume ==
    /\ running = NoCall
    /\ shutdown = "joined"
    /\ shutdown' = IF AwaitCaught("bare", "cancelled")
                   THEN "complete" ELSE "raised"
    /\ UNCHANGED <<orchVars, tickerVars, clock, running, WS_CONNECTIONS,
                   WS_SUBSCRIPTIONS, sock, refs, startup, answer>>

HubNext ==
    \/ router_startup
    \/ LoopCycle
    \/ \E symbol \in HubSymbols : get_price_http(symbol)
    \/ \E r \in HubRefreshers : FetchResume(r)
    \/ \E r \in HubRefreshers : PassStep(r)
    \/ \E r \in HubRefreshers : SendResume(r)
    \/ \E w \in HubConns : ws_price_endpoint(w)
    \/ \E w \in HubConns, action \in {"subscribe", "unsubscribe"},
             symbol \in HubSymbols :
          WsMessage(w, action, symbol)
    \/ \E w \in HubConns : WsDrop(w)
    \/ \E w \in HubConns : WsHandlerEnd(w)
    \/ Tick
    \/ router_shutdown
    \/ LoopCancelled
    \/ ShutdownResume

HubInit ==
    /\ ProgramInit
    /\ credentials = TRUE
    /\ sz = SzIdle
    /\ db = DbEmpty

HubSpec == HubInit /\ [][HubNext]_vars

-----------------------------------------------------------------------------
(* PushSpec: an execute_orders call and a list_securities request while a  *)
(* price-stream connection is open.  No fetch brings the pair USDTINR, so  *)
(* the call finds the FX rate stale and awaits the rebound refresh (line   *)
(* 344), whose broadcast pass sends to the connection from inside the      *)
(* call.                                                                   *)

\* The order of the run: the first of OrderInputs.
PushOrders == {o \in OrderInputs : o.symbol = BTCUSDT /\ o.qty > 0}

\* The refreshers of the run: the polling task, a list_securities request
\* and one execute_orders call.
PushRefreshers == {"loop", "securities", "c1"}

PushInit ==
    /\ ProgramInit
    /\ credentials = TRUE
    /\ sz = SzIdle
    /\ db = DbEmpty

PushNext ==
    \/ \E order \in PushOrders : add_order(order)
    \/ router_startup
    \/ LoopCycle
    \/ list_securities
    \/ \E r \in PushRefreshers : FetchResume(r)
    \/ \E r \in PushRefreshers : PassStep(r)
    \/ \E r \in PushRefreshers : SendResume(r)
    \/ \E w \in HubConns : ws_price_endpoint(w)
    \/ \E w \in HubConns : WsMessage(w, "subscribe", BTCUSDT)
    \/ \E w \in HubConns : WsDrop(w)
    \/ \E w \in HubConns : WsHandlerEnd(w)
    \/ execute_orders("c1", <<1>>)
    \/ NextId("c1")
    \/ PlaceStart("c1")
    \/ WalletCheck("c1")
    \/ WalletResume("c1")
    \/ WalletGot("c1")
    \/ ActiveCheck("c1")
    \/ ActiveResume("c1")
    \/ ActiveGot("c1")
    \/ InstCheck("c1")
    \/ InstResume("c1")
    \/ RateCheck("c1")
    \/ Size("c1")
    \/ PostResume("c1")
    \/ Bucket("c1")
    \/ Return("c1")

PushSpec == PushInit /\ [][PushNext]_vars

-----------------------------------------------------------------------------
(* StartupSpec: the start of the application with no connection open: the  *)
(* three tasks _router_startup creates run beside an execute_orders call,  *)
(* so that the startup fetches and the call write the same caches.         *)

StartupInit ==
    /\ ProgramInit
    /\ credentials \in BOOLEAN
    /\ sz = SzIdle
    /\ db = DbEmpty

StartupNext ==
    \/ \E order \in PushOrders : add_order(order)
    \/ router_startup
    \/ LoopCycle
    \/ FetchResume("loop")
    \/ \E r \in StartupTasks : StartupStep(r)
    \/ \E r \in StartupTasks : StartupResume(r)
    \/ \E ids \in CacheIdLists : execute_orders("c1", ids)
    \/ NextId("c1")
    \/ PlaceStart("c1")
    \/ WalletCheck("c1")
    \/ WalletResume("c1")
    \/ WalletGot("c1")
    \/ ActiveCheck("c1")
    \/ ActiveResume("c1")
    \/ ActiveGot("c1")
    \/ InstCheck("c1")
    \/ InstResume("c1")
    \/ RateCheck("c1")
    \/ RateResume("c1")
    \/ Size("c1")
    \/ PostResume("c1")
    \/ Bucket("c1")
    \/ Return("c1")

StartupSpec == StartupInit /\ [][StartupNext]_vars

-----------------------------------------------------------------------------
(* BroadcasterSpec: services/price_broadcaster.py, the PriceBroadcaster    *)
(* instance with its polling task, its push pass and its registry.         *)

\* The variables BroadcasterSpec leaves alone, the sockets apart.
nonPbVars ==
    <<queueVars, cacheVars, credentials, clock, calls, running, posts, sz,
      WS_CONNECTIONS, WS_SUBSCRIPTIONS, refs, shutdown, startup, answer, storeVars>>

\* What client.get and r.json() bring (lines 51-53): an exception, a JSON
\* value that is no list (one that iterates over nothing, such as {}, or
\* one whose elements have no .get), or a list: of items that parse to
\* `items` (none of them when the list is empty or no item has both a
\* market and a last_price), or with an item whose last_price is no number.
PbOutcomes ==
    {[kind |-> "raise", empty |-> FALSE, bad |-> FALSE, items |-> EmptyDict],
     [kind |-> "list", empty |-> TRUE, bad |-> FALSE, items |-> EmptyDict],
     [kind |-> "nonlist", empty |-> FALSE, bad |-> FALSE, items |-> EmptyDict],
     [kind |-> "nonlist", empty |-> TRUE, bad |-> FALSE, items |-> EmptyDict],
     [kind |-> "list", empty |-> FALSE, bad |-> TRUE,
      items |-> [x \in {BTCUSDT} |-> 2]],
     [kind |-> "list", empty |-> FALSE, bad |-> FALSE,
      items |-> [x \in {BTCUSDT, ETHUSDT} |-> 1]],
     [kind |-> "list", empty |-> FALSE, bad |-> FALSE,
      items |-> [x \in {BTCUSDT} |-> 2]]}

\* Lines 56-70: new_tickers, or nothing when the loop over data raises
\* (item.get on a non-dict, float() on a bad price); the loop over an
\* empty value builds the empty mapping.
PbParse(data) ==
    CASE data.kind = "raise" -> NoneVal
      [] data.kind = "nonlist" -> IF data.empty THEN Some(EmptyDict) ELSE NoneVal
      [] data.kind = "list" -> IF data.bad THEN NoneVal ELSE Some(data.items)

\* self._subscriptions.get(ws), as a set
PbSubsOf(w) ==
    IF w \in DOMAIN pb.subscriptions THEN pb.subscriptions[w] ELSE {}

\* The polling task has ended.
PbTaskDone == pb.task \in {"finished", "cancelled"}

\* No step of the polling task is under way.
PbQuiet == pb.task # "push"

\* start_broadcaster (lines 24-29)
start_broadcaster ==
    /\ ~pb.running
    /\ pb.stop = "idle"
    /\ pb' = [pb EXCEPT !.running = TRUE, !.task = "created"]
    /\ UNCHANGED <<nonPbVars, sock>>

\* The most tasks the model keeps that are no longer self._task.
MaxOld == 2

\* The task of self._task has been created and is not done.
PbAlive(p) == p.task \notin {"none", "finished", "cancelled"}

\* A task self._task no longer names holds the lock of _push_updates.
LockHeldByOld == \E i \in 1..Len(pb.old) : pb.old[i].at = "send_io"

\* Lines 27-28: a new task becomes self._task.  The task it replaces, if
\* not done, lives on where it is suspended; the stop_broadcaster call that
\* awaits it has nothing left to do but return.
NewTask(p) ==
    [p EXCEPT !.running = TRUE, !.task = "created", !.cancel = FALSE,
              !.stop = "idle",
              !.old = IF PbAlive(p)
                      THEN Append(@, [at |-> p.task, cancel |-> p.cancel])
                      ELSE @,
              !.cur = NoWs, !.todo = {}, !.todo_subs = {}, !.to_remove = {},
              !.push = NoneVal, !.seen = EmptyDict, !.sent = {}]

\* start_broadcaster without the test of line 25
StartedAlways(p) == NewTask(p)

\* start_broadcaster (lines 24-29) as a function of the object
Started(p) == IF p.running THEN p ELSE NewTask(p)

\* start_broadcaster (lines 24-29), called again on an object that has had
\* a task: running or not, during or after a stop_broadcaster
start_broadcaster_again ==
    /\ PbQuiet
    /\ pb.task # "none"
    /\ Len(pb.old) < MaxOld
    /\ pb' = Started(pb)
    /\ UNCHANGED <<nonPbVars, sock>>

\* A cancelled task that is no longer self._task is resumed with
\* CancelledError at its await and ends, as in PbCancelled; leaving
\* `async with self._lock` it releases the lock.
PbOldCancelled ==
    /\ PbQuiet
    /\ \E i \in 1..Len(pb.old) :
          /\ pb.old[i].cancel
          /\ pb' = [pb EXCEPT !.old = SubSeq(@, 1, i - 1)
                                      \o SubSeq(@, i + 1, Len(@))]
    /\ UNCHANGED <<nonPbVars, sock>>

\* Line 92: the lock is free and the waiting task enters _push_updates.
PbLockAcquired ==
    /\ pb.task = "lock_wait"
    /\ ~pb.cancel
    /\ ~LockHeldByOld
    /\ pb' = [pb EXCEPT !.task = "push", !.todo = DOMAIN pb.subscriptions,
                        !.to_remove = {}, !.seen = EmptyDict, !.sent = {}]
    /\ UNCHANGED <<nonPbVars, sock>>

\* Lines 48-51: `while self._running`, then the request suspends the task.
PbCycle ==
    /\ pb.task \in {"created", "sleep"}
    /\ ~pb.cancel
    /\ pb' = [pb EXCEPT !.task = IF pb.running THEN "get_io" ELSE "finished"]
    /\ UNCHANGED <<nonPbVars, sock>>

\* Lines 51-80: the request ends.  An exception in the request or in the
\* parsing is caught at line 79 and the task goes to sleep; else the
\* mapping is replaced and _push_updates begins with the lock, which only
\* this task ever holds across an await.
PbGetResume ==
    /\ pb.task = "get_io"
    /\ ~pb.cancel
    /\ \E data \in PbOutcomes :
          LET new_tickers == PbParse(data)
          IN  IF new_tickers = NoneVal
              THEN pb' = [pb EXCEPT !.task = "sleep", !.fetch = data.kind]
              ELSE pb' = [pb EXCEPT !.tickers = new_tickers[1],
                                    !.fetch = data.kind,
                                    !.task = IF LockHeldByOld
                                             THEN "lock_wait" ELSE "push",
                                    !.todo = IF LockHeldByOld THEN {}
                                             ELSE DOMAIN pb.subscriptions,
                                    !.to_remove = {},
                                    !.seen = EmptyDict, !.sent = {}]
    /\ UNCHANGED <<nonPbVars, sock>>

\* ws.send_json is called (line 99).
PbPush(w, s, price) ==
    Some([ws |-> w, symbol |-> s, price |-> price, member |-> s \in PbSubsOf(w)])

\* Lines 93-99 and 105-106: the loops of the pass up to the next
\* send_json; at the end the connections of to_remove are popped.
PbPassStep ==
    /\ pb.task = "push"
    /\ IF pb.todo_subs # {}
       THEN \E s \in pb.todo_subs :
              LET price == DictGet(pb.tickers, s)
              IN  IF price # NoneVal
                  THEN pb' = [pb EXCEPT !.todo_subs = @ \ {s},
                                        !.task = "send_io",
                                        !.push = PbPush(pb.cur, s, price[1])]
                  ELSE pb' = [pb EXCEPT !.todo_subs = @ \ {s}]
       ELSE IF pb.todo # {}
       THEN \E w \in pb.todo :
              pb' = [pb EXCEPT !.cur = w, !.todo = @ \ {w},
                               !.todo_subs = PbSubsOf(w),
                               !.seen = DictSet(@, w, PbSubsOf(w))]
       ELSE pb' = [pb EXCEPT !.task = "sleep", !.cur = NoWs,
                             !.to_remove = {},
                             !.seen = EmptyDict, !.sent = {},
                             !.subscriptions =
                                 [w \in DOMAIN @ \ pb.to_remove |-> @[w]]]
    /\ UNCHANGED <<nonPbVars, sock>>

\* A send failure that leaves _push_updates, as an exception no handler
\* catches would: the pass is over and nothing is removed.
SendFailedAborts(p) ==
    [p EXCEPT !.task = "sleep", !.push = NoneVal, !.cur = NoWs,
              !.todo = {}, !.todo_subs = {}, !.to_remove = {},
              !.seen = EmptyDict, !.sent = {}]

\* Lines 100-102: the exception of send_json is caught inside the loop over
\* the connections: the connection goes to to_remove, the rest of its
\* symbols is skipped and the pass moves to the next connection.
SendFailed(p) ==
    [p EXCEPT !.task = "push", !.push = NoneVal, !.todo_subs = {},
              !.to_remove = @ \cup {p.cur}]

\* Lines 99-102: send_json returns, or raises on a socket that is gone.
\* pb.seen and pb.sent are history: the symbols list(subs) held at each
\* connection's turn, and the messages delivered in this pass.
PbSendResume ==
    /\ pb.task = "send_io"
    /\ ~pb.cancel
    /\ IF sock[pb.cur].up
       THEN pb' = [pb EXCEPT !.task = "push", !.push = NoneVal,
                             !.sent = @ \cup {<<pb.cur, pb.push[1].symbol>>}]
       ELSE pb' = SendFailed(pb)
    /\ UNCHANGED <<nonPbVars, sock>>

\* The lock of the broadcaster is free: no pass of _push_updates is
\* under way or suspended in a send, and no task waits for it.
PbLockFree ==
    PbQuiet /\ pb.task \notin {"send_io", "lock_wait"} /\ ~LockHeldByOld

\* A websocket that is handed to the broadcaster is accepted by the
\* endpoint that owns it (the repository has none): from then on send_json
\* to it succeeds, until the client goes away (WsDrop).
PbAccept(w) ==
    /\ sock[w].handler = "new"
    /\ sock' = [sock EXCEPT ![w].handler = "open", ![w].up = TRUE]
    /\ UNCHANGED <<nonPbVars, pb>>

\* register (lines 109-112), once it has the lock: setdefault gives a
\* websocket that has no entry the empty set, whatever its state.
pb_register(w) ==
    /\ PbLockFree
    /\ pb' = [pb EXCEPT !.subscriptions =
                 IF w \in DOMAIN @ THEN @ ELSE DictSet(@, w, {})]
    /\ UNCHANGED <<nonPbVars, sock>>

\* unregister (lines 114-117), once it has the lock: pop(websocket, None).
pb_unregister(w) ==
    /\ PbLockFree
    /\ pb' = [pb EXCEPT !.subscriptions = DictPop(@, w)]
    /\ UNCHANGED <<nonPbVars, sock>>

\* subscribe (lines 119-123), which takes no lock: setdefault creates the
\* entry of a websocket that has none.
pb_subscribe(w, symbol) ==
    /\ PbQuiet
    /\ pb' = [pb EXCEPT !.subscriptions =
                 DictSet(@, w, PbSubsOf(w) \cup {SymbolUpper(symbol)})]
    /\ UNCHANGED <<nonPbVars, sock>>

\* unsubscribe (lines 125-129), which takes no lock: the symbol is
\* discarded from the entry of a websocket that has one.
pb_unsubscribe(w, symbol) ==
    /\ PbQuiet
    /\ pb' = IF w \in DOMAIN pb.subscriptions
             THEN [pb EXCEPT !.subscriptions[w] = @ \ {SymbolUpper(symbol)}]
             ELSE pb
    /\ UNCHANGED <<nonPbVars, sock>>

\* stop_broadcaster (lines 31-41): not running, it returns; else it cancels
\* the task and awaits it.
stop_broadcaster ==
    /\ PbQuiet
    /\ pb.stop = "idle"
    /\ pb.running
    /\ pb' = IF PbTaskDone
             THEN [pb EXCEPT !.running = FALSE,
                             !.stop = IF AwaitCaught("CancelledError", pb.task)
                                      THEN "complete" ELSE "raised"]
             ELSE [pb EXCEPT !.running = FALSE, !.stop = "waiting",
                             !.cancel = TRUE]
    /\ UNCHANGED <<nonPbVars, sock>>

\* The cancelled task is resumed with CancelledError at its await.  In the
\* sleep it is caught (line 84) and the loop breaks; in the request or in a
\* send_json no `except Exception` catches it and the task ends cancelled;
\* a task that has not started never runs.
PbCancelled ==
    /\ pb.cancel
    /\ pb.task \in {"created", "get_io", "lock_wait", "send_io", "sleep"}
    /\ pb' = [pb EXCEPT !.task = IF pb.task = "sleep" THEN "finished"
                                 ELSE "cancelled",
                        !.cur = NoWs, !.todo = {}, !.todo_subs = {},
                        !.to_remove = {}, !.push = NoneVal,
                        !.seen = EmptyDict, !.sent = {},
                        !.cancelled_at = pb.task]
    /\ UNCHANGED <<nonPbVars, sock>>

\* Lines 37-41: the awaited task is done; its CancelledError is caught.
PbStopResume ==
    /\ pb.stop = "waiting"
    /\ PbTaskDone
    /\ pb' = [pb EXCEPT !.stop = IF AwaitCaught("CancelledError", pb.task)
                                 THEN "complete" ELSE "raised"]
    /\ UNCHANGED <<nonPbVars, sock>>

PbNext ==
    \/ start_broadcaster
    \/ PbCycle
    \/ PbGetResume
    \/ PbPassStep
    \/ PbSendResume
    \/ \E w \in Conns : PbAccept(w)
    \/ \E w \in Conns : pb_register(w)
    \/ \E w \in Conns : pb_unregister(w)
    \/ \E w \in Conns, symbol \in HubSymbols : pb_subscribe(w, symbol)
    \/ \E w \in Conns, symbol \in HubSymbols : pb_unsubscribe(w, symbol)
    \/ \E w \in Conns : WsDrop(w)
    \/ stop_broadcaster
    \/ PbCancelled
    \/ PbStopResume

BroadcasterSpec == HubInit /\ [][PbNext]_vars

-----------------------------------------------------------------------------
(* RegistrySpec: the polling task's refreshes and broadcast passes against *)
(* the handlers of MaxConns /ws/price connections.                         *)

RegistryNext ==
    \/ router_startup
    \/ LoopCycle
    \/ FetchResume("loop")
    \/ PassStep("loop")
    \/ SendResume("loop")
    \/ \E w \in Conns : ws_price_endpoint(w)
    \/ \E w \in Conns, action \in WsActions, symbol \in WsSymbols :
          WsMessage(w, action, symbol)
    \/ \E w \in Conns : WsDrop(w)
    \/ \E w \in Conns : WsHandlerEnd(w)

RegistrySpec == HubInit /\ [][RegistryNext]_vars

-----------------------------------------------------------------------------
(* ShutdownSpec: the two polling tasks, each with its subscribers and its  *)
(* shutdown: ticker_background_loop with _router_shutdown, and             *)
(* PriceBroadcaster._poll_loop with stop_broadcaster.  The connections of  *)
(* HubConns are /ws/price clients, the others register with the            *)
(* broadcaster.                                                            *)

PbConns == Conns \ HubConns

ShutdownNext ==
    \/ router_startup
    \/ LoopCycle
    \/ FetchResume("loop")
    \/ PassStep("loop")
    \/ SendResume("loop")
    \/ \E w \in HubConns : ws_price_endpoint(w)
    \/ \E w \in HubConns : WsMessage(w, "subscribe", BTCUSDT)
    \/ \E w \in Conns : WsDrop(w)
    \/ router_shutdown
    \/ LoopCancelled
    \/ ShutdownResume
    \/ start_broadcaster
    \/ PbCycle
    \/ PbGetResume
    \/ PbPassStep
    \/ PbSendResume
    \/ \E w \in PbConns : PbAccept(w)
    \/ \E w \in PbConns : pb_register(w)
    \/ \E w \in PbConns : pb_subscribe(w, BTCUSDT)
    \/ stop_broadcaster
    \/ PbCancelled
    \/ PbStopResume

ShutdownSpec == HubInit /\ [][ShutdownNext]_vars

\* The PriceBroadcaster started and stopped any number of times.
RestartNext ==
    \/ start_broadcaster
    \/ PbCycle
    \/ PbGetResume
    \/ PbPassStep
    \/ PbSendResume
    \/ \E w \in HubConns : PbAccept(w)
    \/ \E w \in HubConns : pb_register(w)
    \/ \E w \in HubConns : pb_subscribe(w, BTCUSDT)
    \/ stop_broadcaster
    \/ PbCancelled
    \/ PbStopResume
    \/ start_broadcaster_again
    \/ PbOldCancelled
    \/ PbLockAcquired

RestartSpec == HubInit /\ [][RestartNext]_vars

-----------------------------------------------------------------------------
(* Properties of the price hub, checked under HubSpec.                     *)

\* The non-empty mappings one refresh can parse.
RefreshResults ==
    {ParseTickers(data) : data \in FetchOutcomes \cup RateFetchOutcomes}
        \ {EmptyDict}

\* C13: _ticker_cache is always the initial empty mapping or the whole
\* result of one refresh; a step that changes the mapping or its timestamp
\* stores a non-empty result and the time of the store together; and a
\* non-empty mapping never becomes empty.
C13_WholesaleReplace ==
    [][/\ ticker_cache' \in {EmptyDict} \cup RefreshResults
       /\ (ticker_cache' # ticker_cache
             \/ ticker_cache_updated_at' # ticker_cache_updated_at) =>
             /\ ticker_cache' \in RefreshResults
             /\ ticker_cache_updated_at' = clock
       /\ ticker_cache # EmptyDict => ticker_cache' # EmptyDict]_vars

\* A refresh has replaced the mapping and the timestamp after the clock
\* moved.
C13_Witness ==
    /\ ticker_cache \in RefreshResults
    /\ ticker_cache_updated_at = TickSeconds

\* C14: get_price_http never answers with a price from a mapping older
\* than the 10 s refresh interval unless it attempted a refresh first.
C14_NoStalePriceUnrefreshed ==
    \A a \in Range(answer) :
        (a.kind = "price" /\ ~a.refreshed) => a.age <= TICKER_REFRESH_INTERVAL

\* C15: the polling task never ends by an exception of one of its cycles.
C15_LoopSurvivesCycle == Ref("loop").pc # "failed"

\* C17: whenever a price is being sent to a connection, its symbol is in
\* the connection's subscription set at that moment.
C17_PushedIsSubscribed ==
    \A r \in Refreshers :
        \A p \in Range(Ref(r).push) : p.member

\* C18: when no broadcast pass of a refresher is under way, every
\* connection whose send failed in its last pass is out of WS_CONNECTIONS
\* and out of WS_SUBSCRIPTIONS.
C18_FailedSendRemoved ==
    \A r \in Refreshers :
        Ref(r).pc \notin {"pass", "send_io"} =>
            \A w \in Ref(r).failed :
                w \notin WS_CONNECTIONS /\ w \notin DOMAIN WS_SUBSCRIPTIONS

\* C19: the prices one broadcast pass has sent all come from one ticker
\* mapping.
C19_OneMappingPerPass ==
    \A r \in Refreshers : Cardinality(Ref(r).maps) <= 1

-----------------------------------------------------------------------------
(* Properties of the connection registry, checked under RegistrySpec.      *)

\* C20: a connection whose handler has ended is in neither WS_CONNECTIONS
\* nor WS_SUBSCRIPTIONS, in that state and ever after; and no price is
\* sent to a connection by a broadcast pass that began after the
\* connection's handler had ended.
C20_ClosedIsUnregistered ==
    [][/\ \A w \in Conns :
             sock'[w].handler = "closed" =>
                 w \notin WS_CONNECTIONS' /\ w \notin DOMAIN WS_SUBSCRIPTIONS'
       /\ \A w \in Conns :
             sock[w].handler = "closed" => sock'[w].handler = "closed"
       /\ \A r \in Refreshers :
             \A p \in Range(refs'[r].push) : p.ws \notin refs'[r].gone]_vars

\* A pass that began after one handler had ended is sending a price to
\* another connection.
C20_Witness ==
    \E r \in Refreshers :
        /\ Ref(r).push # NoneVal
        /\ Ref(r).gone # {}
        /\ \A w \in Ref(r).gone :
              w \notin WS_CONNECTIONS /\ w \notin DOMAIN WS_SUBSCRIPTIONS

-----------------------------------------------------------------------------
(* Properties of the two shutdowns, checked under ShutdownSpec.            *)

\* C16: neither _router_shutdown nor stop_broadcaster ends in an
\* exception; a shutdown completes only when its polling task has ended
\* (_router_shutdown at once over no task or a done one, else after the
\* task it awaited has ended by the cancellation); while the task is
\* awaited it takes no step but its end; and a task that has ended takes
\* no step and refreshes no price ever after, the frame changing only
\* when a later _router_startup creates a new task.
C16_ShutdownJoinsTask ==
    [][/\ shutdown' # "raised"
       /\ pb'.stop # "raised"
       /\ (shutdown' = "complete" /\ shutdown # "complete") =>
             \/ shutdown = "joined"
             \/ refs["loop"].pc \in {"none", "cancelled", "failed"}
       /\ (shutdown' = "joined" /\ shutdown # "joined") =>
             shutdown = "waiting" /\ refs'["loop"].pc = "cancelled"
       /\ shutdown = "waiting" =>
             /\ refs'["loop"] = refs["loop"] \/ refs'["loop"].pc = "cancelled"
             /\ UNCHANGED tickerVars
       /\ refs["loop"].pc \in {"cancelled", "failed"} =>
             /\ \/ refs'["loop"] = refs["loop"]
                \/ refs'["loop"] = [RefIdle EXCEPT !.pc = "created"]
             /\ UNCHANGED tickerVars
       /\ pb'.stop = "complete" => pb'.task \in {"finished", "cancelled"}
       /\ pb.stop = "complete" =>
             pb'.task = pb.task /\ pb'.tickers = pb.tickers]_vars

\* Both shutdowns have completed, _router_shutdown after cancelling its
\* task in the fetch of a refresh, stop_broadcaster after cancelling its
\* task in the sleep.
C16_Witness ==
    /\ shutdown = "complete"
    /\ Ref("loop").cancelled_at = "fetch_io"
    /\ pb.stop = "complete"
    /\ pb.cancelled_at = "sleep"

\* Both shutdowns have completed after cancelling their tasks in a send to
\* a subscriber.
C16_WitnessSend ==
    /\ shutdown = "complete"
    /\ Ref("loop").cancelled_at = "send_io"
    /\ pb.stop = "complete"
    /\ pb.cancelled_at = "send_io"

-----------------------------------------------------------------------------
(* Properties of the queue during an execution, checked under QueueSpec.   *)

\* The orders of a queue, as a set.
QueueMembers(queue) == {queue[k] : k \in DOMAIN queue}

\* C35: when execute_orders returns, the queue holds, in their order, all
\* the orders it held just before whose id was not executed in this call,
\* those added by add_order or add_orders_bulk during the call included;
\* the orders that leave are exactly those with an executed id.
C35_ReturnKeepsUnexecuted ==
    [][Return("c1") =>
         LET f == Frame("c1")
         IN  /\ QueueMembers(orders') =
                   {o \in QueueMembers(orders) :
                       heap[o].id \notin ExecutedIds(f)}
             /\ \A j, k \in DOMAIN orders' : j < k =>
                   \E a, b \in DOMAIN orders :
                      a < b /\ orders[a] = orders'[j] /\ orders[b] = orders'[k]
             /\ Len(orders') = Cardinality(QueueMembers(orders'))]_vars

\* A call that executed an order is at its return, and the queue holds an
\* order that was added after the call had built its id_map.
C35_Witness ==
    LET f == Frame("c1")
    IN  /\ f.pc = "finish"
        /\ f.executed # <<>>
        /\ \E o \in QueueMembers(orders) :
              heap[o].id \notin DOMAIN f.id_map

\* C36: an execution attempt that is rejected before anything is submitted
\* leaves the queued order as list_orders returns it unchanged.  Stated for
\* the first attempt of the first call: no attempt came before it, so the
\* order is as add_order or update_order left it, without a
\* last_client_order_id.
C36_RejectedLeavesOrder ==
    LET f == Frame("c1")
    IN  (/\ f.pc = "result"
         /\ f.i = 1
         /\ calls["c2"].pc = "idle"
         /\ posts = <<>>
         /\ ~f.res.success)
            => heap[f.found].last_client_order_id = NoneVal

-----------------------------------------------------------------------------
(* Properties of the order store, checked under StoreSpec.                 *)

\* The rows of the orders table that are not the user's.
RowsOfOthers(rows, u) == {r \in rows : r.user_id # u.id}

\* C37: get_order, update_order and delete_order called by a user with the
\* id of another user's order answer 404 and leave the table as it is;
\* clear_queue removes the caller's QUEUED orders and nothing else; and no
\* request of a user changes or removes a row of another user (drop_db is
\* no request: it drops the table).
C37_OrdersArePrivate ==
    [][\A u \in CurrentUsers :
          /\ \A order_id \in {r.id : r \in RowsOfOthers(db.rows, u)} :
                /\ get_order(order_id, u) => db'.reply.code = 404
                /\ (\E order_update \in OrderUpdates :
                       user_orders_update_order(order_id, order_update, u))
                      => db'.reply.code = 404 /\ db'.rows = db.rows
                /\ delete_order(order_id, u)
                      => db'.reply.code = 404 /\ db'.rows = db.rows
          /\ clear_queue(u) =>
                db'.rows = db.rows \ {r \in db.rows :
                                         r.user_id = u.id /\ r.status = "queued"}
          /\ ~drop_db =>
                RowsOfOthers(db'.rows, u) = RowsOfOthers(db.rows, u)]_vars

\* The user has asked for the other user's queued order by its id, and
\* holds a queued order too.
C37_Witness ==
    /\ db.reply = Reply("delete_order", 404)
    /\ \E r \in db.rows : r.user_id = 2 /\ r.id = 1 /\ r.status = "queued"
    /\ \E r \in db.rows : r.user_id = 1 /\ r.status = "queued"

\* C38: create_bulk_orders is all-or-nothing.  With an item whose leverage
\* is above the user's max_leverage the request is answered 400 and the
\* table is as before, the items that precede it included; otherwise, on
\* a database that has its tables, one QUEUED order of the user is stored
\* for each item, and on one without them nothing is stored.
C38_BulkAllOrNothing ==
    [][\A bulk_data \in BulkOrderCreates, u \in CurrentUsers :
          create_bulk_orders(bulk_data, u) =>
             IF \E k \in DOMAIN bulk_data :
                   bulk_data[k].leverage > u.max_leverage
             THEN db'.reply.code = 400 /\ db'.rows = db.rows
             ELSE IF ~db.tables
             THEN db'.reply.code = 500 /\ db'.rows = db.rows
             ELSE /\ db'.reply.code = 201
                  /\ db.rows \subseteq db'.rows
                  /\ Cardinality(db'.rows \ db.rows) = Len(bulk_data)
                  /\ \A r \in db'.rows \ db.rows :
                        /\ r.status = "queued" /\ r.user_id = u.id
                        /\ \E k \in DOMAIN bulk_data :
                              /\ r.leverage = bulk_data[k].leverage
                              /\ r.limit_price = bulk_data[k].limit_price
                              /\ r.symbol = SymbolUpper(bulk_data[k].symbol)]_vars

\* A bulk request has been answered 400 and the table holds no order.
C38_Witness ==
    /\ db.reply = Reply("create_bulk_orders", 400)
    /\ db.rows = {}

\* C39: update_order with a leverage above the user's max_leverage is
\* answered 400 and leaves every stored field of the order as it was, the
\* symbol, side, order_type and quantity of the same request included;
\* create_order with such a leverage is answered 400 and stores nothing.
C39_LeverageRejectionStoresNothing ==
    [][\A u \in CurrentUsers :
          /\ \A order_id \in {r.id : r \in {x \in db.rows :
                                  x.user_id = u.id /\ x.status = "queued"}},
                order_update \in {x \in OrderUpdates :
                                    /\ x.leverage # NoneVal
                                    /\ x.leverage[1] > u.max_leverage} :
                user_orders_update_order(order_id, order_update, u) =>
                   db'.reply.code = 400 /\ db'.rows = db.rows
          /\ \A order_data \in {x \in OrderCreates :
                                    x.leverage > u.max_leverage} :
                create_order(order_data, u) =>
                   db'.reply.code = 400 /\ db'.rows = db.rows]_vars

\* An update of the user's queued order has been answered 400; the order
\* is still queued with the symbol and the leverage it was created with.
C39_Witness ==
    /\ db.reply = Reply("update_order", 400)
    /\ \E r \in db.rows :
          /\ r.user_id = 1 /\ r.status = "queued"
          /\ r.symbol = BTCUSDT /\ r.leverage = 1
    /\ \A r \in db.rows : r.status = "queued"

-----------------------------------------------------------------------------
(* Properties of repeated starts and stops, checked under RestartSpec.     *)

\* The polling tasks that are not done.
PbTasksAlive(p) == (IF PbAlive(p) THEN 1 ELSE 0) + Len(p.old)

\* The polling tasks that are not done and have no cancellation pending.
PbTasksPolling(p) ==
    (IF PbAlive(p) /\ ~p.cancel THEN 1 ELSE 0)
        + Cardinality({i \in 1..Len(p.old) : ~p.old[i].cancel})

\* C34: under any interleaving of start_broadcaster and stop_broadcaster
\* at most one polling task is alive (created and not done) at any time.
C34_OnePollingTask == PbTasksAlive(pb) <= 1

\* C34, amended: at most one polling task is alive without a pending
\* cancellation; a start on a running broadcaster changes nothing; a start
\* on a stopped one leaves exactly one such task, the new self._task; and
\* a running broadcaster always has one.
C34_OneTaskPolling ==
    [][/\ PbTasksPolling(pb') <= 1
       /\ (start_broadcaster_again /\ pb.running) => pb' = pb
       /\ (~pb.running /\ pb'.running) =>
             /\ PbTasksPolling(pb') = 1
             /\ pb'.task = "created" /\ ~pb'.cancel
       /\ pb'.running => PbAlive(pb') /\ ~pb'.cancel]_vars

\* stop_broadcaster, then start_broadcaster before the cancelled task has
\* ended: the new task is in its request while the old one is not done.
C34_Witness ==
    /\ pb.running
    /\ pb.task = "get_io"
    /\ Len(pb.old) = 1
    /\ pb.old[1].cancel

-----------------------------------------------------------------------------
(* Properties of the price-stream handler, checked under RegistrySpec.     *)

\* C21: a step that handles a message whose action is neither subscribe
\* nor unsubscribe changes no registry entry and leaves the handler in its
\* receive loop; one that handles subscribe adds, and one that handles
\* unsubscribe removes, the upper-cased symbol in the sender's set and
\* nothing else.
C21_MessageEffect ==
    [][\A w \in Conns, symbol \in WsSymbols :
          LET sym == SymbolUpper(symbol)
              others == [x \in Conns \ {w} |-> SubsOf(x)]
          IN  /\ WsMessage(w, "ping", symbol) =>
                    /\ UNCHANGED <<WS_CONNECTIONS, WS_SUBSCRIPTIONS>>
                    /\ sock'[w].handler = "open" /\ sock'[w].up
              /\ WsMessage(w, "subscribe", symbol) =>
                    /\ WS_SUBSCRIPTIONS'[w] = WS_SUBSCRIPTIONS[w] \cup {sym}
                    /\ others' = others
                    /\ UNCHANGED WS_CONNECTIONS
              /\ WsMessage(w, "unsubscribe", symbol) =>
                    /\ WS_SUBSCRIPTIONS'[w] = WS_SUBSCRIPTIONS[w] \ {sym}
                    /\ others' = others
                    /\ UNCHANGED WS_CONNECTIONS]_vars

\* A connection that has had a message with an unknown action is still
\* registered, in its receive loop, and holds the one symbol it is
\* subscribed to.
C21_Witness ==
    \E w \in Conns :
        /\ sock[w].ignored
        /\ sock[w].handler = "open" /\ sock[w].up
        /\ w \in WS_CONNECTIONS
        /\ SubsOf(w) = {BTCUSDT}

-----------------------------------------------------------------------------
(* Properties of the PriceBroadcaster, checked under BroadcasterSpec.      *)

\* C12: a cycle of _poll_loop whose fetch raises or brings a value that is
\* no list leaves the ticker mapping exactly as it was before the cycle.
C12_FailedRefreshKeepsPrices ==
    [][(/\ pb.task = "get_io"
        /\ pb'.task # "get_io"
        /\ ~pb.cancel
        /\ pb'.fetch \in {"raise", "nonlist"}) => pb'.tickers = pb.tickers]_vars

\* The messages a connection got in the running pass.
PbSentTo(w) == {m[2] : m \in {x \in pb.sent : x[1] = w}}

\* The step that ends a pass of _push_updates which was not cancelled.
PbPassEnds ==
    /\ pb.task \in {"push", "send_io"}
    /\ pb'.task = "sleep"
    /\ ~pb'.cancel
    /\ pb'.cancelled_at = pb.cancelled_at

\* C32: a send failure to one connection does not stop the pass of
\* _push_updates: when the pass ends every connection of the pass has had
\* its turn, each one whose sends did not fail got one message for each
\* symbol it held at its turn that has a cached price, exactly the
\* connections whose send failed are removed at that last step, and no
\* step inside the pass removes a connection.
C32_FailureIsolated ==
    [][/\ PbPassEnds =>
            /\ pb.todo = {} /\ pb.todo_subs = {}
            /\ \A w \in DOMAIN pb.seen \ pb.to_remove :
                  PbSentTo(w) = pb.seen[w] \cap DOMAIN pb.tickers
            /\ DOMAIN pb'.subscriptions =
                  DOMAIN pb.subscriptions \ pb.to_remove
       /\ (pb.task \in {"push", "send_io"} /\ ~PbPassEnds) =>
            DOMAIN pb.subscriptions \subseteq DOMAIN pb'.subscriptions]_vars

\* A pass in which the send to one connection failed and another connection
\* got its message.
C32_Witness ==
    /\ pb.task = "push"
    /\ pb.to_remove # {}
    /\ \E w \in DOMAIN pb.seen \ pb.to_remove : PbSentTo(w) # {}

\* C33: a connection that is not in _subscriptions (never registered, or
\* removed by unregister or by a failed send) comes back only by a call of
\* register: no other step, a subscribe or unsubscribe included, adds it,
\* and no message is sent to a connection that is absent.
C33_RemovedStaysAbsent ==
    [][\A w \in PbConns :
          /\ (w \notin DOMAIN pb.subscriptions
                 /\ w \in DOMAIN pb'.subscriptions) => pb_register(w)
          /\ (pb'.push # NoneVal /\ pb.push = NoneVal /\ pb'.cur = w)
                 => w \in DOMAIN pb.subscriptions]_vars

\* C31: _poll_loop replaces self.tickers only by a non-empty mapping: a
\* cycle whose fetch succeeds and parses to no entry leaves the previous
\* tickers in place.
C31_EmptyResultKeepsTickers ==
    [][pb'.tickers # pb.tickers => pb'.tickers # EmptyDict]_vars

-----------------------------------------------------------------------------
(* Properties of the execution orchestrator, checked under Spec.           *)

CallEnded(c) == calls[c].pc \in {"returned", "raised"}

\* C1: for every order id, of two execute_orders calls that overlap in time
\* and both name the id, at most one POSTs the id to the exchange: a POST
\* for an id is never made while another call that has already POSTed the
\* same id is still in progress.
C1_OneSubmitterPerId ==
    \A i, j \in DOMAIN posts :
        (i < j /\ posts[i].id = posts[j].id /\ posts[i].call # posts[j].call)
            => posts[i].call \notin posts[j].live

\* C2: within one execute_orders call every order id is POSTed at most
\* once, duplicate ids in the list included, and the executed bucket never
\* holds the same order twice.
C2_OncePerCall ==
    /\ \A i, j \in DOMAIN posts :
          (i < j /\ posts[i].call = posts[j].call) => posts[i].id # posts[j].id
    /\ \A c \in Calls : \A k, l \in DOMAIN calls[c].executed :
          k < l => calls[c].executed[k] # calls[c].executed[l]

\* C3: once an execute_orders call has ended, by returning or by raising,
\* no order whose POST in that call was answered with 200 or 201 is still
\* in the queue _orders.
C3_ExecutedLeaveQueue ==
    \A c \in Calls :
        CallEnded(c) =>
            \A k \in DOMAIN calls[c].executed : \A o \in Range(orders) :
                heap[o].id # heap[calls[c].executed[k]].id

\* C4: no validation or sizing failure of an order (no price, no INR
\* wallet, inactive instrument, size out of bounds, insufficient margin)
\* leaves execute_orders as an exception.
C4_NoValidationException ==
    \A c \in Calls :
        calls[c].pc = "raised" =>
            calls[c].exc \notin {"HTTPException", "ZeroDivisionError"}

\* The ids of a call's list that were in the queue when id_map was built.
ResolvedIds(f) == {f.ids[k] : k \in DOMAIN f.ids} \cap DOMAIN f.id_map

DebugOf(f, id) == {k \in DOMAIN f.debug : f.debug[k].local_id = id}

\* C5: every execute_orders call returns, and the buckets it returns are
\* such that each requested id absent from the queue is in not_found, each
\* resolved id is in executed exactly when its POST was answered 200 or 201
\* and in failed otherwise, no id is in two of executed, failed and
\* not_found, and debug holds exactly one entry per resolved id.
C5_FourBuckets ==
    \A c \in Calls :
        LET f == calls[c]
            ex == ExecutedIds(f)
            fl == Range(f.failed)
            nf == Range(f.not_found)
        IN  /\ f.pc # "raised"
            /\ f.pc = "finish" =>
                  /\ \A k \in DOMAIN f.ids :
                        f.ids[k] \notin DOMAIN f.id_map => f.ids[k] \in nf
                  /\ ex \cap fl = {} /\ ex \cap nf = {} /\ fl \cap nf = {}
                  /\ \A id \in ResolvedIds(f) :
                        /\ Cardinality(DebugOf(f, id)) = 1
                        /\ id \in ex \cup fl
                        /\ \A k \in DebugOf(f, id) :
                              id \in ex <=> f.debug[k].result.response_status
                                                \in {200, 201}

\* C11: with the API key or secret absent, the wallet snapshot is never
\* written, no execute_orders call ends in an exception, and every order a
\* call attempts gets the result no_inr_futures_wallet with sent = False.
C11_NoWalletOutcome ==
    ~credentials =>
        /\ futures_wallets_cache = NoneVal
        /\ \A c \in Calls :
              /\ calls[c].pc # "raised"
              /\ calls[c].pc = "result" =>
                    /\ calls[c].res.error = "no_inr_futures_wallet"
                    /\ ~calls[c].res.sent

\* The debug entries of a call that record a submission of the id that the
\* exchange refused: sent, and answered with a status other than 200 or 201.
RefusedIn(f, id) ==
    {k \in DOMAIN f.debug :
        /\ f.debug[k].local_id = id
        /\ f.debug[k].result.sent
        /\ ~f.debug[k].result.success}

\* C28: the core never retries.  Every POST is sent by a call that stands
\* at an occurrence of the order's id in its own list, and no earlier POST
\* was sent for that occurrence, whatever the exchange answered; and an
\* order whose submission failed is submitted again only by a later
\* execute call: no call POSTs an id for which the same call already holds
\* a submission that the exchange refused.
C28_NeverRetries ==
    [][posts' # posts =>
         /\ Len(posts') = Len(posts) + 1
         /\ SubSeq(posts', 1, Len(posts)) = posts
         /\ LET p == posts'[Len(posts')]
                f == Frame(p.call)
            IN  /\ f.pc = "size"
                /\ p.i = f.i
                /\ p.i \in DOMAIN f.ids
                /\ p.id = f.ids[p.i]
                /\ \A j \in DOMAIN posts :
                       ~(posts[j].call = p.call /\ posts[j].i = p.i)
                /\ RefusedIn(f, p.id) = {}]_vars

-----------------------------------------------------------------------------
(* Properties of the wallet and instrument caches, checked under CacheSpec. *)

\* The snapshot is there, holds a wallet and is at most 30 s old.
SnapshotFresh ==
    /\ futures_wallets_cache # NoneVal
    /\ futures_wallets_cache[1] # <<>>
    /\ clock - futures_wallets_cached_at <= 30

\* A write to the wallet cache replaces the snapshot and its timestamp in
\* one step, by one response of the fetch a call or a wallet request was
\* suspended in, and the wallet a call goes on with is an entry of the
\* snapshot.
SnapshotReplacedWhole ==
    /\ walletVars' # walletVars
       => /\ \/ \E c \in Calls : calls[c].pc = "wallet_io"
             \/ \E r \in WalletRequests : Ref(r).pc = "fetch_io"
             \/ startup["startup_wallets"].fetch_io > 0
          /\ futures_wallets_cache' \in {Some(data) : data \in WalletResponses}
          /\ futures_wallets_cached_at' = clock
    /\ \A c \in Calls :
          (WalletGot(c) /\ calls'[c].pc = "active")
          => \E k \in DOMAIN futures_wallets_cache[1] :
                 /\ futures_wallets_cache[1][k].currency = "INR"
                 /\ calls'[c].wallet_balance =
                        PyOr(futures_wallets_cache[1][k].balance, 0)

\* C26 as stated: _get_inr_futures_wallet goes on without a fetch when the
\* snapshot is non-empty and at most 30 s old, and otherwise suspends in a
\* fetch of the whole snapshot; the snapshot and its timestamp are replaced
\* together.
C26_FreshOrRefetched ==
    [][/\ \A c \in Calls :
             WalletCheck(c)
             => IF SnapshotFresh
                THEN calls'[c].pc = "wallet_got" /\ running' = c
                ELSE calls'[c].pc = "wallet_io" /\ running' = NoCall
       /\ SnapshotReplacedWhole]_vars

\* C26, amended: as above where the API credentials are set; without
\* them no fetch is made and the answer comes from the snapshot as it is.
C26_FreshOrRefetchedWithCredentials ==
    [][/\ \A c \in Calls :
             WalletCheck(c)
             => IF SnapshotFresh \/ ~credentials
                THEN calls'[c].pc = "wallet_got" /\ running' = c
                ELSE calls'[c].pc = "wallet_io" /\ running' = NoCall
       /\ SnapshotReplacedWhole]_vars

\* The call is suspended in a refetch of a snapshot that holds wallets and
\* is more than 30 s old.
C26_Witness ==
    /\ Frame("c1").pc = "wallet_io"
    /\ futures_wallets_cache # NoneVal
    /\ futures_wallets_cache[1] # <<>>
    /\ clock - futures_wallets_cached_at > 30

\* C27: get_active_instruments and get_instrument_details refetch exactly
\* when the entry of the key is absent, empty or older than 60 s; a refetch
\* either stores its result with the present time under that key alone, or
\* fails, and then the call goes on with the entry cached for the key (the
\* empty value when there is none) and neither cache nor any timestamp
\* changes.
C27_FailedRefetchServesCache ==
    [][\A c \in Calls :
          LET pair == PairOf(SymbolUpper(heap[calls[c].found].symbol))
              act == IF MARGIN_CCY \in DOMAIN active_instruments_cache
                     THEN active_instruments_cache[MARGIN_CCY] ELSE {}
              act_ts == IF MARGIN_CCY \in DOMAIN active_instruments_cached_at
                        THEN active_instruments_cached_at[MARGIN_CCY] ELSE 0
              inst == IF pair \in DOMAIN instrument_cache
                      THEN instrument_cache[pair] ELSE EmptyInst
              inst_ts == IF pair \in DOMAIN instrument_cached_at
                         THEN instrument_cached_at[pair] ELSE 0
          IN  /\ ActiveCheck(c)
                 => (calls'[c].pc = "active_io"
                        <=> (act = {} \/ clock - act_ts > 60))
              /\ InstCheck(c)
                 => (calls'[c].pc = "inst_io"
                        <=> (inst = EmptyInst \/ clock - inst_ts > 60))
              /\ ActiveResume(c)
                 => /\ UNCHANGED instVars
                    /\ \/ /\ UNCHANGED activeVars
                          /\ calls'[c].active = act
                       \/ /\ active_instruments_cached_at'[MARGIN_CCY] = clock
                          /\ active_instruments_cache'[MARGIN_CCY]
                                 = calls'[c].active
              /\ InstResume(c)
                 => /\ UNCHANGED activeVars
                    /\ \A p \in DOMAIN instrument_cache \ {pair} :
                          /\ p \in DOMAIN instrument_cache'
                          /\ instrument_cache'[p] = instrument_cache[p]
                          /\ instrument_cached_at'[p] = instrument_cached_at[p]
                    /\ \/ /\ UNCHANGED instVars
                          /\ calls'[c].inst = inst
                       \/ /\ instrument_cached_at'[pair] = clock
                          /\ instrument_cache'[pair] = calls'[c].inst]_vars

\* The call goes on with the active set cached more than 60 s ago, after
\* a refetch that failed, while the instrument cache holds the entry of
\* another pair.
C27_Witness ==
    /\ Frame("c1").pc = "active_got"
    /\ Frame("c1").active = {PairOf(BTCUSDT)}
    /\ MARGIN_CCY \in DOMAIN active_instruments_cached_at
    /\ clock - active_instruments_cached_at[MARGIN_CCY] > 60
    /\ PairOf(ETHUSDT) \in DOMAIN instrument_cache

-----------------------------------------------------------------------------
(* Properties of the persisted order store, checked under StoreSpec.       *)

\* C23: update_order and delete_order of the persisted store, applied to
\* an order whose status is not QUEUED, answer with an error (400 to the
\* order's owner) and leave the table, hence every field of the order and
\* its existence, as it was.
C23_NonQueuedRejected ==
    [][\A order_id \in 1..MaxRows + 1, u \in CurrentUsers :
          \A r \in {x \in db.rows : x.id = order_id /\ x.status # "queued"} :
              (\/ \E order_update \in OrderUpdates :
                      user_orders_update_order(order_id, order_update, u)
               \/ delete_order(order_id, u))
              => /\ db'.rows = db.rows
                 /\ r \in db'.rows
                 /\ db'.reply.code \in {400, 404}
                 /\ r.user_id = u.id => db'.reply.code = 400]_vars

\* The user's one order is EXECUTED and an update of it was answered 400.
C23_Witness ==
    /\ db.reply = Reply("update_order", 400)
    /\ \E r \in db.rows :
          /\ db.rows = {r}
          /\ r.status = "executed"
          /\ r.user_id = 1
          /\ r.updated_at = r.created_at

\* C24: the status of a stored order follows the listed transitions only:
\* a row that enters the table is QUEUED, a QUEUED order that delete_order
\* deletes stays in the table with status CANCELLED, and an order that is
\* EXECUTED, FAILED or CANCELLED stays in the table with every field as it
\* was under every operation of the store (drop_db is none of them).
C24_StatusTransitions ==
    [][/\ \A r \in db'.rows :
             r.id \notin {x.id : x \in db.rows} => r.status = "queued"
       /\ \A order_id \in 1..MaxRows + 1, u \in CurrentUsers :
             \A r \in DbFind(order_id, u) :
                 (/\ r.status = "queued"
                  /\ delete_order(order_id, u))
                 => \E x \in db'.rows :
                        x.id = r.id /\ x.status = "cancelled"
       /\ ~drop_db =>
             \A r \in db.rows :
                r.status \in {"executed", "failed", "cancelled"}
                => r \in db'.rows]_vars

\* C30: an update of a QUEUED order that the store accepts leaves the
\* order's id, owner, creation time and status as they were and gives its
\* mutable fields the values of the request: every field the request
\* names, and None in limit_price and margin where the request has None.
C30_UpdateReplacesAll ==
    [][\A order_id \in 1..MaxRows + 1, u \in CurrentUsers,
          order_update \in OrderUpdates :
          \A r \in DbFind(order_id, u) :
              (/\ r.status = "queued"
               /\ user_orders_update_order(order_id, order_update, u)
               /\ db'.reply.code = 200)
              => \E x \in db'.rows :
                     /\ x.id = r.id
                     /\ x.user_id = r.user_id
                     /\ x.created_at = r.created_at
                     /\ x.status = r.status
                     /\ order_update.symbol # NoneVal
                        => x.symbol = SymbolUpper(order_update.symbol[1])
                     /\ order_update.leverage # NoneVal
                        => x.leverage = order_update.leverage[1]
                     /\ x.limit_price = order_update.limit_price
                     /\ x.margin = order_update.margin]_vars

-----------------------------------------------------------------------------
(* Properties of the client_order_id, checked under ClientIdSpec.          *)

\* C29: the client_order_id is a function of the local id and of the
\* timestamp in milliseconds, and an injective one: two submissions carry
\* the same client_order_id if and only if they have the same local id and
\* the same timestamp.
C29_ClientIdInjective ==
    \A j, k \in DOMAIN subm :
        (subm[j].client_order_id = subm[k].client_order_id)
        <=> (/\ subm[j].local_id = subm[k].local_id
             /\ subm[j].timestamp_ms = subm[k].timestamp_ms)

\* Order 1 at millisecond 11 and order 11 at millisecond 1: the same digits
\* in the same order, and two different client_order_ids.
C29_Witness ==
    /\ Len(subm) = 2
    /\ subm[1].local_id = 1 /\ subm[1].timestamp_ms = 11
    /\ subm[2].local_id = 11 /\ subm[2].timestamp_ms = 1
    /\ subm[1].client_order_id = <<"1", "-", "1", "1">>
    /\ subm[2].client_order_id = <<"1", "1", "-", "1">>

-----------------------------------------------------------------------------
(* Properties of the in-memory queue, checked under QueueSpec.             *)

\* The identifiers of the order dicts h holds.
IdsOf(h) == {h[k].id : k \in DOMAIN h}

\* C22: the counter never decreases; every identifier ever given to an
\* order is below it; the identifiers a step assigns are exactly the
\* counter's old value up to its new value less one, in the order the
\* orders are stored, and none of them was ever assigned before; any other
\* order dict a step creates is an updated copy carrying the identifier of
\* a queued order; and the queue holds its identifiers in increasing order.
C22_IdsNeverReused ==
    [][LET created == DOMAIN heap' \ DOMAIN heap
           fresh == {k \in created : heap'[k].id \notin IdsOf(heap)}
       IN  /\ order_next_id' >= order_next_id
           /\ \A k \in DOMAIN heap' : heap'[k].id < order_next_id'
           /\ {heap'[k].id : k \in fresh} =
                 order_next_id .. (order_next_id' - 1)
           /\ \A k, l \in fresh : k < l => heap'[k].id < heap'[l].id
           /\ \A k \in created \ fresh :
                 \E j \in DOMAIN orders : heap[orders[j]].id = heap'[k].id
           /\ \A i, j \in DOMAIN orders' :
                 i < j => heap'[orders'[i]].id < heap'[orders'[j]].id]_vars

\* An execute call has removed order 1, an order has been updated, and the
\* queue holds order 2 alone.
C22_Witness ==
    /\ calls["c1"].pc = "returned"
    /\ 1 \in ExecutedIds(calls["c1"])
    /\ Len(heap) = MaxHeap
    /\ order_next_id = 3
    /\ Len(orders) = 1
    /\ heap[orders[1]].id = 2

\* C25: every order in the queue has a non-empty symbol, a positive qty
\* and a leverage between 1 and 100.
C25_QueuedOrdersValid ==
    \A k \in DOMAIN orders :
        LET o == heap[orders[k]]
        IN  /\ o.symbol # <<>>
            /\ o.qty > 0
            /\ o.leverage # NoneVal
            /\ o.leverage[1] \in 1..100

-----------------------------------------------------------------------------
(* Properties of place_order_on_coindcx, checked under SizingSpec.         *)

SzDone == sz.pc = "done"

\* The inputs of the run, as place_order_on_coindcx reads them: the price
\* from the order or the mapping at entry (line 540).
SzPrice == PriceOf(sz.order, sz.ticker)

SzPair == PairOf(SymbolUpper(sz.order.symbol))

SzWalletFound == FindInrWallet(sz.wallets) # NoneVal

\* The sizing lines were reached: a price, an INR wallet, an active pair,
\* and both were fetched.
SzSized ==
    /\ Truthy(SzPrice) /\ SzWalletFound /\ SzPair \in sz.active
    /\ sz.faults \cap {"wallets", "active"} = {}

\* C6: an estimated margin above the INR wallet balance gives the error
\* estimated_margin_exceeds_balance with sent = False and no POST; a POST is
\* made only when an INR wallet was found, the pair is active, the contract
\* count lies within [min_quantity, max_quantity] and the margin does not
\* exceed the balance.
C6_MarginGate ==
    /\ SzDone =>
          LET out == sz.out
              over == out.margin_num * FmtDen
                          > out.wallet_balance * out.margin_den * FmtNum
          IN  /\ over => /\ out.error = "estimated_margin_exceeds_balance"
                         /\ ~out.sent
                         /\ out.response_status = 0
                         /\ posts = <<>>
              /\ out.sent => posts # <<>>
    /\ \A k \in DOMAIN posts :
          LET p == posts[k].payload
          IN  /\ SzSized
              /\ p.min_quantity <= p.contracts_step
              /\ p.contracts_step <= p.max_quantity
              /\ p.margin_num * FmtDen
                     <= p.wallet_balance * p.margin_den * FmtNum

C6_Witness ==
    /\ SzDone
    /\ sz.out.error = "estimated_margin_exceeds_balance"
    /\ sz.out.margin_num * FmtDen
           > sz.out.wallet_balance * sz.out.margin_den * FmtNum

\* C7 as stated: a pair absent from the active set is rejected with
\* instrument_not_active, unsent and with no quantity computed, whatever the
\* price cache and the wallet snapshot hold.
C7_InactiveAlways ==
    (SzDone /\ SzPair \notin sz.active) =>
        /\ sz.out.kind = "return"
        /\ sz.out.error = "instrument_not_active"
        /\ ~sz.out.sent
        /\ sz.out.contracts_step = 0

\* C7, amended: for a pair absent from the active set nothing is submitted
\* and no quantity is computed; when a price is available and the wallet
\* request does not fail the result is instrument_not_active if an INR
\* wallet is found and no_inr_futures_wallet if none is, the wallet being
\* looked up before the instrument.
C7_InactiveGate ==
    (SzDone /\ SzPair \notin sz.active) =>
        /\ ~sz.out.sent
        /\ sz.out.response_status = 0
        /\ posts = <<>>
        /\ sz.out.contracts_step = 0 /\ sz.out.inr_per_contract = 0
        /\ (Truthy(SzPrice) /\ "wallets" \notin sz.faults) =>
              /\ sz.out.kind = "return"
              /\ sz.out.error = IF SzWalletFound THEN "instrument_not_active"
                                ELSE "no_inr_futures_wallet"

C7_Witness ==
    /\ SzDone
    /\ SzPair \notin sz.active
    /\ sz.faults = {}
    /\ Truthy(SzPrice) /\ SzWalletFound
    /\ sz.out.error = "instrument_not_active"

\* C8: the contract count is floor(notional / (price * unit_contract_value
\* * fx_rate) / increment) * increment, that is n increments for the one n
\* with n * increment * inr_per_contract <= notional < (n + 1) * increment
\* * inr_per_contract; the result is trade_size_too_small_for_instrument
\* exactly when the count is below min_quantity and
\* trade_size_too_large_for_instrument exactly when it is not below
\* min_quantity and is above max_quantity.  (A POST that raises leaves no
\* result to look at.)
C8_FloorToIncrement ==
    (SzDone /\ SzSized /\ "order" \notin sz.faults) =>
        LET out  == sz.out
            unit == out.quantity_increment * out.inr_per_contract
        IN  /\ out.kind = "return"
            /\ unit > 0
            /\ \E n \in 0..sz.order.qty :
                  /\ n * unit <= sz.order.qty
                  /\ sz.order.qty < (n + 1) * unit
                  /\ out.contracts_step = n * out.quantity_increment
            /\ out.error = "trade_size_too_small_for_instrument"
                  <=> out.contracts_step < out.min_quantity
            /\ out.error = "trade_size_too_large_for_instrument"
                  <=> /\ out.contracts_step >= out.min_quantity
                      /\ out.contracts_step > out.max_quantity

C8_Witness ==
    /\ SzDone /\ SzSized
    /\ sz.out.sent
    /\ sz.out.contracts_step > 0
    /\ sz.out.contracts_step * sz.out.inr_per_contract < sz.order.qty

\* C9: whenever sizing succeeds, the total_quantity of the payload (the
\* count after the 8-digit formatting) is an integer multiple of
\* quantity_increment and lies within [min_quantity, max_quantity].
C9_QuantityOnGrid ==
    (SzDone /\ sz.out.sent) =>
        LET out == sz.out
            tq  == out.total_quantity * FmtDen
        IN  /\ tq % (out.quantity_increment * FmtNum) = 0
            /\ out.min_quantity * FmtNum <= tq
            /\ (tq + FmtNum - 1) \div FmtNum <= out.max_quantity

\* C10: no run divides by zero; a zero or missing leverage gives a margin
\* equal to the full notional; the sizing divisors inr_per_contract and
\* quantity_increment are non-zero whenever the sizing lines are reached
\* (as the result shows, unless the POST raised),
\* a zero or missing unit_contract_value, quantity_increment or USDTINR rate
\* having been replaced by its default; a zero or missing price raises
\* HTTPException before anything is computed.
C10_NoDivisionByZero ==
    SzDone =>
        LET out == sz.out
        IN  /\ out.exc # "ZeroDivisionError"
            /\ (SzSized /\ "order" \notin sz.faults) =>
                  /\ out.inr_per_contract # 0
                  /\ out.quantity_increment # 0
                  /\ out.margin_den # 0
                  /\ ~Truthy(sz.inst.quantity_increment)
                        => out.quantity_increment = QDen
                  /\ (~Truthy(sz.inst.unit_contract_value)
                        /\ ~Truthy(sz.rate))
                        => out.inr_per_contract = SzPrice[1] * USDT_INR_DEFAULT
                  /\ ~Truthy(sz.order.leverage) => out.margin_den = 1
            /\ ~Truthy(SzPrice) =>
                  /\ out.kind = "raise" /\ out.exc = "HTTPException"
                  /\ out.inr_per_contract = 0

C10_Witness ==
    /\ SzDone /\ SzSized
    /\ sz.inst.unit_contract_value = Some(0)
    /\ sz.order.leverage = Some(0)
    /\ sz.rate = Some(0)
    /\ sz.out.sent
    /\ sz.out.margin_den = 1

=============================================================================
